---- MODULE Spec2Model ----
(***************************************************************************)
(* A model of chumweb's package-metadata core: the Package record built    *)
(* from a <package> node of an RPM primary index (package.py), the merge   *)
(* of per-architecture records, the embedded-metadata extractor, and the   *)
(* repository loader (repo_loader.py).                                     *)
(*                                                                         *)
(* Python strings are sequences of one-character strings, so that split,   *)
(* startswith, removeprefix, capitalize, lower and replace are computed.   *)
(* Python values of varying type (None, str, int, bool, list, dict) are    *)
(* tagged records [k, v].  An insertion-ordered dict is a sequence of      *)
(* <<key, value>> pairs with distinct keys.                                *)
(***************************************************************************)
EXTENDS Integers, Sequences, FiniteSets, TLC

(***************************************************************************)
(* String literals of the source.                                          *)
(***************************************************************************)
s_harbour == <<"h","a","r","b","o","u","r">>
s_openrepos == <<"o","p","e","n","r","e","p","o","s">>
s_lib == <<"l","i","b">>
s_devel == <<"d","e","v","e","l">>
s_library == <<"(","l","i","b","r","a","r","y",")">>
s_development_files == <<"(","d","e","v","e","l","o","p","m","e","n","t"," ","f","i","l","e","s",")">>
s_debuginfo == <<"-","d","e","b","u","g","i","n","f","o">>
s_debugsource == <<"-","d","e","b","u","g","s","o","u","r","c","e">>
s_noarch == <<"n","o","a","r","c","h">>
s_generic == <<"g","e","n","e","r","i","c">>
k_Title == <<"T","i","t","l","e">>
k_PackageName == <<"P","a","c","k","a","g","e","N","a","m","e">>
k_Type == <<"T","y","p","e">>
k_PackageIcon == <<"P","a","c","k","a","g","e","I","c","o","n">>
k_Icon == <<"I","c","o","n">>
k_Screenshots == <<"S","c","r","e","e","n","s","h","o","t","s">>
k_DeveloperName == <<"D","e","v","e","l","o","p","e","r","N","a","m","e">>
k_PackagedBy == <<"P","a","c","k","a","g","e","d","B","y">>
k_Custom == <<"C","u","s","t","o","m">>
k_Repo == <<"R","e","p","o">>
k_PackagingRepo == <<"P","a","c","k","a","g","i","n","g","R","e","p","o">>
k_DescriptionMD == <<"D","e","s","c","r","i","p","t","i","o","n","M","D">>
k_Links == <<"L","i","n","k","s">>
k_Url == <<"U","r","l">>
k_Categories == <<"C","a","t","e","g","o","r","i","e","s">>

(***************************************************************************)
(* Python str methods, on sequences of characters.                         *)
(***************************************************************************)
LowerChars == <<"a","b","c","d","e","f","g","h","i","j","k","l","m",
                "n","o","p","q","r","s","t","u","v","w","x","y","z">>

UpperChars == <<"A","B","C","D","E","F","G","H","I","J","K","L","M",
                "N","O","P","Q","R","S","T","U","V","W","X","Y","Z">>

upper_char(c) ==
    IF \E i \in 1..Len(LowerChars) : LowerChars[i] = c
    THEN UpperChars[CHOOSE i \in 1..Len(LowerChars) : LowerChars[i] = c]
    ELSE c

lower_char(c) ==
    IF \E i \in 1..Len(UpperChars) : UpperChars[i] = c
    THEN LowerChars[CHOOSE i \in 1..Len(UpperChars) : UpperChars[i] = c]
    ELSE c

\* str.lower()
lower(s) == [i \in 1..Len(s) |-> lower_char(s[i])]

\* str.capitalize(): first character upper-cased, the rest lower-cased
capitalize(s) ==
    [i \in 1..Len(s) |-> IF i = 1 THEN upper_char(s[i]) ELSE lower_char(s[i])]

\* str.startswith(prefix)
startswith(s, prefix) ==
    Len(prefix) <= Len(s) /\ SubSeq(s, 1, Len(prefix)) = prefix

\* str.endswith(suffix)
endswith(s, suffix) ==
    Len(suffix) <= Len(s) /\ SubSeq(s, Len(s) - Len(suffix) + 1, Len(s)) = suffix

\* str.removeprefix(prefix)
removeprefix(s, prefix) ==
    IF startswith(s, prefix) THEN SubSeq(s, Len(prefix) + 1, Len(s)) ELSE s

\* str.removesuffix(suffix)
removesuffix(s, suffix) ==
    IF endswith(s, suffix) THEN SubSeq(s, 1, Len(s) - Len(suffix)) ELSE s

\* str.replace(old, new) for one-character old and new
replace(s, old, new) == [i \in 1..Len(s) |-> IF s[i] = old THEN new ELSE s[i]]

\* str.split(sep) for a one-character separator: always at least one piece
RECURSIVE split(_, _)
split(s, sep) ==
    IF \E i \in 1..Len(s) : s[i] = sep
    THEN LET i == CHOOSE i \in 1..Len(s) :
                      s[i] = sep /\ \A j \in 1..(i - 1) : s[j] # sep
         IN  <<SubSeq(s, 1, i - 1)>> \o split(SubSeq(s, i + 1, Len(s)), sep)
    ELSE <<s>>

\* sep.join(parts)
RECURSIVE join(_, _)
join(sep, parts) ==
    IF parts = <<>> THEN <<>>
    ELSE IF Len(parts) = 1 THEN parts[1]
    ELSE parts[1] \o sep \o join(sep, Tail(parts))

\* Python's \s on the characters the model uses
is_space(c) == c \in {" ", "\n", "\t"}

\* bool(s.strip()): the string has a character that is not whitespace
strip_nonempty(s) == \E i \in 1..Len(s) : ~is_space(s[i])

(***************************************************************************)
(* Python values.                                                          *)
(***************************************************************************)
PyNone == [k |-> "none", v |-> <<>>]

PyStr(s) == [k |-> "str", v |-> s]

PyInt(n) == [k |-> "int", v |-> n]

PyBool(b) == [k |-> "bool", v |-> b]

PyList(xs) == [k |-> "list", v |-> xs]

PyDict(kv) == [k |-> "dict", v |-> kv]

\* RemoteImage(remote_url)
RemoteImage(remote_url) == [k |-> "RemoteImage", v |-> remote_url]

\* bool(x), as `or` and `if` use it
truthy(x) ==
    CASE x.k = "none" -> FALSE
      [] x.k = "int"  -> x.v # 0
      [] x.k = "bool" -> x.v
      [] x.k \in {"str", "list", "dict"} -> x.v # <<>>
      [] OTHER -> TRUE

\* key in d, for the pairs d of a dict
dict_has(d, key) == \E i \in 1..Len(d) : d[i][1] = key

\* d.get(key, default)
dict_get(d, key, default) ==
    IF dict_has(d, key)
    THEN d[CHOOSE i \in 1..Len(d) : d[i][1] = key][2]
    ELSE default

\* d[key] = val: in place when the key is there, appended otherwise
dict_set(d, key, val) ==
    IF dict_has(d, key)
    THEN [i \in 1..Len(d) |-> IF d[i][1] = key THEN <<key, val>> ELSE d[i]]
    ELSE Append(d, <<key, val>>)

\* s.add(x)
set_add(s, x) == s \cup {x}

\* map_store with the store lost
map_store_lost(d, key, val) == d

\* d[key] = val, for a dict written as a function of its keys
map_store(d, key, val) == (key :> val) @@ d

\* iter(x) succeeds: a list, the characters of a str, the keys of a dict
iterable(x) == x.k \in {"list", "str", "dict"}

iterate(x) ==
    CASE x.k = "list" -> x.v
      [] x.k = "str"  -> [i \in 1..Len(x.v) |-> PyStr(<<x.v[i]>>)]
      [] x.k = "dict" -> [i \in 1..Len(x.v) |-> x.v[i][1]]

\* a set with a greatest element
SetMax(S) == CHOOSE m \in S : \A x \in S : x <= m

(***************************************************************************)
(* The enums of package.py.  A StrEnum member equals its value, so a       *)
(* member is written as its value.                                         *)
(***************************************************************************)
PackageApplicationCategory ==
    { [name |-> "other", value |-> <<"O","t","h","e","r">>],
      [name |-> "audiovideo", value |-> <<"A","u","d","i","o","V","i","d","e","o">>],
      [name |-> "audio", value |-> <<"A","u","d","i","o">>],
      [name |-> "video", value |-> <<"V","i","d","e","o">>],
      [name |-> "development", value |-> <<"D","e","v","e","l","o","p","m","e","n","t">>],
      [name |-> "education", value |-> <<"E","d","u","c","a","t","i","o","n">>],
      [name |-> "game", value |-> <<"G","a","m","e">>],
      [name |-> "graphics", value |-> <<"G","r","a","p","h","i","c","s">>],
      [name |-> "network", value |-> <<"N","e","t","w","o","r","k">>],
      [name |-> "office", value |-> <<"O","f","f","i","c","e">>],
      [name |-> "science", value |-> <<"S","c","i","e","n","c","e">>],
      [name |-> "settings", value |-> <<"S","e","t","t","i","n","g","s">>],
      [name |-> "system", value |-> <<"S","y","s","t","e","m">>],
      [name |-> "utility", value |-> <<"U","t","i","l","i","t","y">>],
      [name |-> "building", value |-> <<"B","u","i","l","d","i","n","g">>],
      [name |-> "debugger", value |-> <<"D","e","b","u","g","g","e","r">>],
      [name |-> "ide", value |-> <<"I","D","E">>],
      [name |-> "guidesigner", value |-> <<"G","U","I","D","e","s","i","g","n","e","r">>],
      [name |-> "profiling", value |-> <<"P","r","o","f","i","l","i","n","g">>],
      [name |-> "revisioncontrol", value |-> <<"R","e","v","i","s","i","o","n","C","o","n","t","r","o","l">>],
      [name |-> "translation", value |-> <<"T","r","a","n","s","l","a","t","i","o","n">>],
      [name |-> "calendar", value |-> <<"C","a","l","e","n","d","a","r">>],
      [name |-> "contactmanagement", value |-> <<"C","o","n","t","a","c","t","M","a","n","a","g","e","m","e","n","t">>],
      [name |-> "database", value |-> <<"D","a","t","a","b","a","s","e">>],
      [name |-> "dictionary", value |-> <<"D","i","c","t","i","o","n","a","r","y">>],
      [name |-> "chart", value |-> <<"C","h","a","r","t">>],
      [name |-> "email", value |-> <<"E","m","a","i","l">>],
      [name |-> "finance", value |-> <<"F","i","n","a","n","c","e">>],
      [name |-> "flowchart", value |-> <<"F","l","o","w","C","h","a","r","t">>],
      [name |-> "pda", value |-> <<"P","D","A">>],
      [name |-> "projectmanagement", value |-> <<"P","r","o","j","e","c","t","M","a","n","a","g","e","m","e","n","t">>],
      [name |-> "presentation", value |-> <<"P","r","e","s","e","n","t","a","t","i","o","n">>],
      [name |-> "spreadsheet", value |-> <<"S","p","r","e","a","d","s","h","e","e","t">>],
      [name |-> "wordprocessor", value |-> <<"W","o","r","d","P","r","o","c","e","s","s","o","r">>],
      [name |-> "twodgraphics", value |-> <<"2","D","G","r","a","p","h","i","c","s">>],
      [name |-> "vectorgraphics", value |-> <<"V","e","c","t","o","r","G","r","a","p","h","i","c","s">>],
      [name |-> "rastergraphics", value |-> <<"R","a","s","t","e","r","G","r","a","p","h","i","c","s">>],
      [name |-> "threedgraphics", value |-> <<"3","D","G","r","a","p","h","i","c","s">>],
      [name |-> "scanning", value |-> <<"S","c","a","n","n","i","n","g">>],
      [name |-> "ocr", value |-> <<"O","C","R">>],
      [name |-> "photography", value |-> <<"P","h","o","t","o","g","r","a","p","h","y">>],
      [name |-> "publishing", value |-> <<"P","u","b","l","i","s","h","i","n","g">>],
      [name |-> "viewer", value |-> <<"V","i","e","w","e","r">>],
      [name |-> "texttools", value |-> <<"T","e","x","t","T","o","o","l","s">>],
      [name |-> "desktopsettings", value |-> <<"D","e","s","k","t","o","p","S","e","t","t","i","n","g","s">>],
      [name |-> "hardwaresettings", value |-> <<"H","a","r","d","w","a","r","e","S","e","t","t","i","n","g","s">>],
      [name |-> "printing", value |-> <<"P","r","i","n","t","i","n","g">>],
      [name |-> "packagemanager", value |-> <<"P","a","c","k","a","g","e","M","a","n","a","g","e","r">>],
      [name |-> "dialup", value |-> <<"D","i","a","l","u","p">>],
      [name |-> "instantmessaging", value |-> <<"I","n","s","t","a","n","t","M","e","s","s","a","g","i","n","g">>],
      [name |-> "chat", value |-> <<"C","h","a","t">>],
      [name |-> "ircclient", value |-> <<"I","R","C","C","l","i","e","n","t">>],
      [name |-> "feed", value |-> <<"F","e","e","d">>],
      [name |-> "filetransfer", value |-> <<"F","i","l","e","T","r","a","n","s","f","e","r">>],
      [name |-> "hamradio", value |-> <<"H","a","m","R","a","d","i","o">>],
      [name |-> "news", value |-> <<"N","e","w","s">>],
      [name |-> "p2p", value |-> <<"P","2","P">>],
      [name |-> "remoteaccess", value |-> <<"R","e","m","o","t","e","A","c","c","e","s","s">>],
      [name |-> "telephony", value |-> <<"T","e","l","e","p","h","o","n","y">>],
      [name |-> "telephonytools", value |-> <<"T","e","l","e","p","h","o","n","y","T","o","o","l","s">>],
      [name |-> "videoconference", value |-> <<"V","i","d","e","o","C","o","n","f","e","r","e","n","c","e">>],
      [name |-> "webbrowser", value |-> <<"W","e","b","B","r","o","w","s","e","r">>],
      [name |-> "webdevelopment", value |-> <<"W","e","b","D","e","v","e","l","o","p","m","e","n","t">>],
      [name |-> "midi", value |-> <<"M","i","d","i">>],
      [name |-> "mixer", value |-> <<"M","i","x","e","r">>],
      [name |-> "sequencer", value |-> <<"S","e","q","u","e","n","c","e","r">>],
      [name |-> "tuner", value |-> <<"T","u","n","e","r">>],
      [name |-> "tv", value |-> <<"T","V">>],
      [name |-> "audiovideoediting", value |-> <<"A","u","d","i","o","V","i","d","e","o","E","d","i","t","i","n","g">>],
      [name |-> "player", value |-> <<"P","l","a","y","e","r">>],
      [name |-> "recorder", value |-> <<"R","e","c","o","r","d","e","r">>],
      [name |-> "discburning", value |-> <<"D","i","s","c","B","u","r","n","i","n","g">>],
      [name |-> "actiongame", value |-> <<"A","c","t","i","o","n","G","a","m","e">>],
      [name |-> "adventuregame", value |-> <<"A","d","v","e","n","t","u","r","e","G","a","m","e">>],
      [name |-> "arcadegame", value |-> <<"A","r","c","a","d","e","G","a","m","e">>],
      [name |-> "boardgame", value |-> <<"B","o","a","r","d","G","a","m","e">>],
      [name |-> "blocksgame", value |-> <<"B","l","o","c","k","s","G","a","m","e">>],
      [name |-> "cardgame", value |-> <<"C","a","r","d","G","a","m","e">>],
      [name |-> "kidsgame", value |-> <<"K","i","d","s","G","a","m","e">>],
      [name |-> "logicgame", value |-> <<"L","o","g","i","c","G","a","m","e">>],
      [name |-> "roleplaying", value |-> <<"R","o","l","e","P","l","a","y","i","n","g">>],
      [name |-> "shooter", value |-> <<"S","h","o","o","t","e","r">>],
      [name |-> "simulation", value |-> <<"S","i","m","u","l","a","t","i","o","n">>],
      [name |-> "sportsgame", value |-> <<"S","p","o","r","t","s","G","a","m","e">>],
      [name |-> "strategygame", value |-> <<"S","t","r","a","t","e","g","y","G","a","m","e">>],
      [name |-> "art", value |-> <<"A","r","t">>],
      [name |-> "construction", value |-> <<"C","o","n","s","t","r","u","c","t","i","o","n">>],
      [name |-> "music", value |-> <<"M","u","s","i","c">>],
      [name |-> "languages", value |-> <<"L","a","n","g","u","a","g","e","s">>],
      [name |-> "artificialintelligence", value |-> <<"A","r","t","i","f","i","c","i","a","l","I","n","t","e","l","l","i","g","e","n","c","e">>],
      [name |-> "astronomy", value |-> <<"A","s","t","r","o","n","o","m","y">>],
      [name |-> "biology", value |-> <<"B","i","o","l","o","g","y">>],
      [name |-> "chemistry", value |-> <<"C","h","e","m","i","s","t","r","y">>],
      [name |-> "computerscience", value |-> <<"C","o","m","p","u","t","e","r","S","c","i","e","n","c","e">>],
      [name |-> "datavisualization", value |-> <<"D","a","t","a","V","i","s","u","a","l","i","z","a","t","i","o","n">>],
      [name |-> "economy", value |-> <<"E","c","o","n","o","m","y">>],
      [name |-> "electricity", value |-> <<"E","l","e","c","t","r","i","c","i","t","y">>],
      [name |-> "geography", value |-> <<"G","e","o","g","r","a","p","h","y">>],
      [name |-> "geology", value |-> <<"G","e","o","l","o","g","y">>],
      [name |-> "geoscience", value |-> <<"G","e","o","s","c","i","e","n","c","e">>],
      [name |-> "history", value |-> <<"H","i","s","t","o","r","y">>],
      [name |-> "humanities", value |-> <<"H","u","m","a","n","i","t","i","e","s">>],
      [name |-> "imageprocessing", value |-> <<"I","m","a","g","e","P","r","o","c","e","s","s","i","n","g">>],
      [name |-> "literature", value |-> <<"L","i","t","e","r","a","t","u","r","e">>],
      [name |-> "maps", value |-> <<"M","a","p","s">>],
      [name |-> "math", value |-> <<"M","a","t","h">>],
      [name |-> "numericalanalysis", value |-> <<"N","u","m","e","r","i","c","a","l","A","n","a","l","y","s","i","s">>],
      [name |-> "medicalsoftware", value |-> <<"M","e","d","i","c","a","l","S","o","f","t","w","a","r","e">>],
      [name |-> "physics", value |-> <<"P","h","y","s","i","c","s">>],
      [name |-> "robotics", value |-> <<"R","o","b","o","t","i","c","s">>],
      [name |-> "spirituality", value |-> <<"S","p","i","r","i","t","u","a","l","i","t","y">>],
      [name |-> "sports", value |-> <<"S","p","o","r","t","s">>],
      [name |-> "parallelcomputing", value |-> <<"P","a","r","a","l","l","e","l","C","o","m","p","u","t","i","n","g">>],
      [name |-> "amusement", value |-> <<"A","m","u","s","e","m","e","n","t">>],
      [name |-> "archiving", value |-> <<"A","r","c","h","i","v","i","n","g">>],
      [name |-> "compression", value |-> <<"C","o","m","p","r","e","s","s","i","o","n">>],
      [name |-> "electronics", value |-> <<"E","l","e","c","t","r","o","n","i","c","s">>],
      [name |-> "emulator", value |-> <<"E","m","u","l","a","t","o","r">>],
      [name |-> "engineering", value |-> <<"E","n","g","i","n","e","e","r","i","n","g">>],
      [name |-> "filetools", value |-> <<"F","i","l","e","T","o","o","l","s">>],
      [name |-> "filemanager", value |-> <<"F","i","l","e","M","a","n","a","g","e","r">>],
      [name |-> "terminalemulator", value |-> <<"T","e","r","m","i","n","a","l","E","m","u","l","a","t","o","r">>],
      [name |-> "filesystem", value |-> <<"F","i","l","e","s","y","s","t","e","m">>],
      [name |-> "monitor", value |-> <<"M","o","n","i","t","o","r">>],
      [name |-> "security", value |-> <<"S","e","c","u","r","i","t","y">>],
      [name |-> "accessibility", value |-> <<"A","c","c","e","s","s","i","b","i","l","i","t","y">>],
      [name |-> "calculator", value |-> <<"C","a","l","c","u","l","a","t","o","r">>],
      [name |-> "clock", value |-> <<"C","l","o","c","k">>],
      [name |-> "texteditor", value |-> <<"T","e","x","t","E","d","i","t","o","r">>],
      [name |-> "documentation", value |-> <<"D","o","c","u","m","e","n","t","a","t","i","o","n">>],
      [name |-> "adult", value |-> <<"A","d","u","l","t">>],
      [name |-> "core", value |-> <<"C","o","r","e">>],
      [name |-> "kde", value |-> <<"K","D","E">>],
      [name |-> "gnome", value |-> <<"G","N","O","M","E">>],
      [name |-> "xfce", value |-> <<"X","F","C","E">>],
      [name |-> "dde", value |-> <<"D","D","E">>],
      [name |-> "gtk", value |-> <<"G","T","K">>],
      [name |-> "qt", value |-> <<"Q","t">>],
      [name |-> "motif", value |-> <<"M","o","t","i","f">>],
      [name |-> "java", value |-> <<"J","a","v","a">>],
      [name |-> "consoleonly", value |-> <<"C","o","n","s","o","l","e","O","n","l","y">>],
      [name |-> "screensaver", value |-> <<"S","c","r","e","e","n","s","a","v","e","r">>],
      [name |-> "trayicon", value |-> <<"T","r","a","y","I","c","o","n">>],
      [name |-> "applet", value |-> <<"A","p","p","l","e","t">>],
      [name |-> "shell", value |-> <<"S","h","e","l","l">>] }

\* the values PackageApplicationCategory(x) accepts
CategoryValues == {m.value : m \in PackageApplicationCategory}

\* PackageApplicationCategory.<name> is an attribute of the class
category_has_member(name) == \E m \in PackageApplicationCategory : m.name = name

category_member(name) ==
    (CHOOSE m \in PackageApplicationCategory : m.name = name).value

PackageApplicationType ==
    { [name |-> "generic", value |-> s_generic],
      [name |-> "console_application",
       value |-> <<"c","o","n","s","o","l","e","-","a","p","p","l","i","c","a","t","i","o","n">>],
      [name |-> "desktop_application",
       value |-> <<"d","e","s","k","t","o","p","-","a","p","p","l","i","c","a","t","i","o","n">>],
      [name |-> "addon", value |-> <<"a","d","d","o","n">>],
      [name |-> "codec", value |-> <<"c","o","d","e","c">>],
      [name |-> "inputmethod", value |-> <<"i","n","p","u","t","m","e","t","h","o","d">>],
      [name |-> "firmware", value |-> <<"f","i","r","m","w","a","r","e">>] }

(***************************************************************************)
(* Package: the dataclass and its defaults.  debuginfo_package and        *)
(* debugsource_package are references: the identity of a record of the    *)
(* heap, NoRef for None.                                                   *)
(***************************************************************************)
NoRef == 0

Package(name) ==
    [ name                |-> name,
      summary             |-> PyNone,
      description         |-> PyNone,
      title               |-> PyNone,
      icon                |-> PyNone,
      version             |-> PyNone,
      developer_name      |-> PyNone,
      packager_name       |-> PyNone,
      type                |-> PyStr(s_generic),
      categories          |-> {category_member("other")},
      screenshots         |-> <<>>,
      links               |-> <<>>,
      debuginfo_package   |-> NoRef,
      debugsource_package |-> NoRef,
      url                 |-> PyNone,
      licence             |-> PyNone,
      markdown_url        |-> PyNone,
      repo_url            |-> PyNone,
      packaging_repo_url  |-> PyNone,
      debug_yaml          |-> PyNone,
      debug_yaml_errors   |-> <<>>,
      updated             |-> 0,
      repos               |-> {},
      archs               |-> {},
      download_size       |-> <<>>,
      install_size        |-> <<>>,
      download_url        |-> <<>>,
      checksum_type       |-> <<>>,
      checksum_value      |-> <<>>,
      changelog_entries   |-> PyNone ]

(***************************************************************************)
(* Package.from_node and its local functions.                              *)
(***************************************************************************)
\* try_get_str: the text of the element, None when the element is empty
try_get_str(text) == IF text = <<>> THEN PyNone ELSE PyStr(text)

\* name_parts after the leading harbour/openrepos segment is popped
name_parts_popped(name) ==
    LET name_parts == split(name, "-")
    IN  IF name_parts[1] = s_harbour \/ name_parts[1] = s_openrepos
        THEN Tail(name_parts)
        ELSE name_parts

\* name_parts[0] on an empty list: IndexError
name_to_title_raises(name) == name_parts_popped(name) = <<>>

\* if name_parts[0].startswith("lib"): strip it and append "(library)"
library_parts(name_parts) ==
    IF startswith(name_parts[1], s_lib)
    THEN Append([name_parts EXCEPT ![1] = removeprefix(@, s_lib)], s_library)
    ELSE name_parts

\* if name_parts[-1] == "devel": name_parts[-1] = "(development files)"
devel_parts(name_parts) ==
    IF name_parts[Len(name_parts)] = s_devel
    THEN [name_parts EXCEPT ![Len(name_parts)] = s_development_files]
    ELSE name_parts

\* " ".join(map(str.capitalize, name_parts))
capitalize_join(name_parts) ==
    join(<<" ">>, [i \in 1..Len(name_parts) |-> capitalize(name_parts[i])])

name_to_title(name) ==
    capitalize_join(devel_parts(library_parts(name_parts_popped(name))))

\* The end of the match of (?m)^\s*$ that starts after the first pos
\* characters of s, or -1: ^ holds at the start and after a newline, \s* is
\* greedy, $ holds at the end and before a newline.
match_end(s, pos) ==
    LET ends == {j \in pos..Len(s) :
                    /\ \A i \in (pos + 1)..j : is_space(s[i])
                    /\ (j = Len(s) \/ s[j + 1] = "\n")}
    IN  IF (pos = 0 \/ s[pos] = "\n") /\ ends # {} THEN SetMax(ends) ELSE -1

\* re.split(r"(?m)^\s*$", s): the pieces between successive matches; an
\* empty match splits too, and the search then resumes one character on.
RECURSIVE re_split_from(_, _, _)
re_split_from(s, pos, start) ==
    IF pos > Len(s) THEN <<SubSeq(s, start + 1, Len(s))>>
    ELSE LET e == match_end(s, pos)
         IN  IF e = -1 THEN re_split_from(s, pos + 1, start)
             ELSE IF e = pos
                  THEN <<SubSeq(s, start + 1, pos)>> \o re_split_from(s, pos + 1, e)
                  ELSE <<SubSeq(s, start + 1, pos)>> \o re_split_from(s, e, e)

\* [line for line in re.split(...) if line.strip()]
split_paragraphs(description) ==
    SelectSeq(re_split_from(description, 0, 0), strip_nonempty)

\* "\n\n".join(map(lambda s: s.replace('\n', ' '), paragraphs))
join_paragraphs(paragraphs) ==
    join(<<"\n", "\n">>,
         [i \in 1..Len(paragraphs) |-> replace(paragraphs[i], "\n", " ")])

\* d |= pairs
RECURSIVE dict_update(_, _)
dict_update(d, pairs) ==
    IF pairs = <<>> THEN d
    ELSE dict_update(dict_set(d, Head(pairs)[1], Head(pairs)[2]), Tail(pairs))

\* custom |= {k: v for (k, v) in list_item.items()}, over the items of a list
RECURSIVE flatten_custom(_, _)
flatten_custom(custom, items) ==
    IF items = <<>> THEN custom
    ELSE flatten_custom(dict_update(custom, Head(items).v), Tail(items))

\* {key.lower(): val for key, val in items}
RECURSIVE lower_keys(_, _)
lower_keys(d, items) ==
    IF items = <<>> THEN d
    ELSE lower_keys(dict_set(d, PyStr(lower(Head(items)[1].v)), Head(items)[2]),
                    Tail(items))

\* PackageApplicationCategory(x) returns a member
is_category(x) == x.k = "str" /\ x.v \in CategoryValues

\* The outcome of a run of statements on the record p: it ran to its end
\* (exc = "none") or an exception ended it, p being the record as left.
Ret(p) == [p |-> p, exc |-> "none"]

Raise(p, exc) == [p |-> p, exc |-> exc]

\* yaml.get(key), yaml.get(key, default) and key in yaml, for a mapping
yaml_get(yaml, key) == dict_get(yaml.v, PyStr(key), PyNone)

yaml_get_default(yaml, key, default) == dict_get(yaml.v, PyStr(key), default)

yaml_has(yaml, key) == dict_has(yaml.v, PyStr(key))

\* a or b
py_or(a, b) == IF truthy(a) THEN a ELSE b

\* RemoteImage(url) if url else None
icon_of(icon_url) == IF truthy(icon_url) THEN RemoteImage(icon_url) ELSE PyNone

\* list(map(lambda s: RemoteImage(s), xs))
remote_images(xs) == [i \in 1..Len(xs) |-> RemoteImage(xs[i])]

\* p.title = yaml.get("Title") or yaml.get("PackageName") or name_to_title(name)
\* p.type = yaml.get("Type"); yaml.get on a value that is no dict raises
extract_title(r, yaml, name) ==
    IF r.exc # "none" THEN r
    ELSE IF yaml.k # "dict" THEN Raise(r.p, "AttributeError")
    ELSE IF /\ ~truthy(yaml_get(yaml, k_Title))
            /\ ~truthy(yaml_get(yaml, k_PackageName))
            /\ name_to_title_raises(name)
         THEN Raise(r.p, "IndexError")
    ELSE Ret([r.p EXCEPT
                !.title = py_or(yaml_get(yaml, k_Title),
                                py_or(yaml_get(yaml, k_PackageName),
                                      PyStr(name_to_title(name)))),
                !.type  = yaml_get(yaml, k_Type)])

\* icon_url = yaml.get("PackageIcon") or yaml.get("Icon"); p.icon = ...
extract_icon(r, yaml) ==
    IF r.exc # "none" THEN r
    ELSE Ret([r.p EXCEPT
                !.icon = icon_of(py_or(yaml_get(yaml, k_PackageIcon),
                                       yaml_get(yaml, k_Icon)))])

\* p.screenshots = list(map(..., yaml.get("Screenshots", []))): TypeError on
\* a value that cannot be iterated
extract_screenshots(r, yaml) ==
    IF r.exc # "none" THEN r
    ELSE IF ~iterable(yaml_get_default(yaml, k_Screenshots, PyList(<<>>)))
         THEN Raise(r.p, "TypeError")
    ELSE Ret([r.p EXCEPT
                !.screenshots =
                    remote_images(iterate(
                        yaml_get_default(yaml, k_Screenshots, PyList(<<>>))))])

\* p.developer_name = yaml.get("DeveloperName"); p.packager_name = ...
extract_names(r, yaml) ==
    IF r.exc # "none" THEN r
    ELSE Ret([r.p EXCEPT !.developer_name = yaml_get(yaml, k_DeveloperName),
                         !.packager_name  = yaml_get(yaml, k_PackagedBy)])

\* list_item.items() on an item that is no dict, or custom.get on a value
\* that is no dict: AttributeError
custom_raises(custom) ==
    IF custom.k = "list"
    THEN \E i \in 1..Len(custom.v) : custom.v[i].k # "dict"
    ELSE custom.k # "dict"

\* custom as a dict: a list of dicts is flattened
custom_dict(custom) ==
    IF custom.k = "list" THEN flatten_custom(<<>>, custom.v) ELSE custom.v

\* p.repo_url = custom.get("Repo"), PackagingRepo, DescriptionMD
store_custom(p, custom) ==
    [p EXCEPT !.repo_url           = dict_get(custom, PyStr(k_Repo), PyNone),
              !.packaging_repo_url = dict_get(custom, PyStr(k_PackagingRepo), PyNone),
              !.markdown_url       = dict_get(custom, PyStr(k_DescriptionMD), PyNone)]

\* if "Custom" in yaml: ...
extract_custom(r, yaml) ==
    IF r.exc # "none" THEN r
    ELSE IF ~yaml_has(yaml, k_Custom) THEN r
    ELSE IF custom_raises(yaml_get(yaml, k_Custom))
         THEN Raise(r.p, "AttributeError")
    ELSE Ret(store_custom(r.p, custom_dict(yaml_get(yaml, k_Custom))))

\* .items() on a value that is no dict, or key.lower() on a key that is no
\* str: AttributeError
links_raises(links) ==
    \/ links.k # "dict"
    \/ \E i \in 1..Len(links.v) : links.v[i][1].k # "str"

\* try: p.links = {key.lower(): val for key, val in links.items()}
\* except AttributeError as e: p.debug_yaml_errors.append(e)
store_links(p, links) ==
    IF links_raises(links)
    THEN [p EXCEPT !.debug_yaml_errors = Append(@, "AttributeError")]
    ELSE [p EXCEPT !.links = lower_keys(<<>>, links.v)]

\* links is yaml.get("Links") or yaml.get("Url", {})
extract_links(r, yaml) ==
    IF r.exc # "none" THEN r
    ELSE Ret(store_links(r.p, py_or(yaml_get(yaml, k_Links),
                                    yaml_get_default(yaml, k_Url, PyDict(<<>>)))))

\* set(map(PackageApplicationCategory, xs)) raises ValueError
categories_invalid(xs) == \E i \in 1..Len(xs) : ~is_category(xs[i])

\* try: p.categories = set(map(PackageApplicationCategory, cats))
\* except (KeyError, ValueError) as e: p.debug_yaml_errors.append(e)
store_categories(p, xs) ==
    IF categories_invalid(xs)
    THEN [p EXCEPT !.debug_yaml_errors = Append(@, "ValueError")]
    ELSE [p EXCEPT !.categories = {xs[i].v : i \in 1..Len(xs)}]

\* yaml["Categories"]: KeyError (caught) when absent; TypeError (not caught)
\* when the value cannot be iterated
extract_categories(r, yaml) ==
    IF r.exc # "none" THEN r
    ELSE IF ~yaml_has(yaml, k_Categories)
         THEN Ret([r.p EXCEPT !.debug_yaml_errors = Append(@, "KeyError")])
    ELSE IF ~iterable(yaml_get(yaml, k_Categories)) THEN Raise(r.p, "TypeError")
    ELSE Ret(store_categories(r.p, iterate(yaml_get(yaml, k_Categories))))

\* parse_description, the branch of a parsed value that is neither str nor
\* None: the statements in their order, each skipped once one has raised.
parse_mapping(p, yaml, name) ==
    extract_categories(
      extract_links(
        extract_custom(
          extract_names(
            extract_screenshots(
              extract_icon(
                extract_title(Ret(p), yaml, name),
                yaml),
              yaml),
            yaml),
          yaml),
        yaml),
      yaml)

\* The exceptions of yaml_load that parse_description catches
CaughtYamlErrors == {"ParserError", "ScannerError"}

\* yaml after the try/except around yaml_load; y is what yaml_load does
yaml_or_none(y) == IF y.raises \in CaughtYamlErrors THEN PyNone ELSE y.value

\* p.description = "\n\n".join(...), when the statements before it returned
store_description(r, paragraphs) ==
    IF r.exc # "none" THEN r
    ELSE Ret([r.p EXCEPT !.description = PyStr(join_paragraphs(paragraphs))])

\* parse_paragraphs without paragraphs.append(yaml_part) in the prose branch
parse_paragraphs_no_pushback(p, paragraphs, name, y) ==
    IF y.raises # "none" /\ y.raises \notin CaughtYamlErrors
    THEN Raise(p, y.raises)
    ELSE IF yaml_or_none(y).k \in {"str", "none"}
    THEN store_description(Ret(p), SubSeq(paragraphs, 1, Len(paragraphs) - 1))
    ELSE store_description(parse_mapping(p, yaml_or_none(y), name),
                           SubSeq(paragraphs, 1, Len(paragraphs) - 1))

\* parse_description from yaml_part = paragraphs.pop() on; paragraphs is the
\* non-empty list before the pop
parse_paragraphs(p, paragraphs, name, y) ==
    IF y.raises # "none" /\ y.raises \notin CaughtYamlErrors
    THEN Raise(p, y.raises)
    ELSE IF yaml_or_none(y).k \in {"str", "none"}
    THEN store_description(Ret(p), paragraphs)
    ELSE store_description(parse_mapping(p, yaml_or_none(y), name),
                           SubSeq(paragraphs, 1, Len(paragraphs) - 1))

\* p.debug_yaml = yaml_part
store_debug_yaml(p, paragraphs) ==
    [p EXCEPT !.debug_yaml = PyStr(paragraphs[Len(paragraphs)])]

\* the body of parse_description once the description is split
parse_split(p, paragraphs, name, y) ==
    IF paragraphs = <<>> THEN Ret(p)
    ELSE parse_paragraphs(store_debug_yaml(p, paragraphs), paragraphs, name, y)

\* parse_description(description, name) acting on the record p.  y is what
\* yaml_load does on the last paragraph: [raises, value].  re.split raises
\* TypeError on a description that is None.
parse_description(p, description, name, y) ==
    IF description.k # "str" THEN Raise(p, "TypeError")
    ELSE parse_split(p, split_paragraphs(description.v), name, y)

\* lines 344-359: the record before the description is parsed
new_package(node, repo_arch) ==
    [Package(node.name) EXCEPT
        !.repos          = set_add(@, repo_arch),
        !.archs          = set_add(@, node.arch),
        !.summary        = try_get_str(node.summary),
        !.version        = node.version,
        !.url            = try_get_str(node.url),
        !.title          = PyStr(name_to_title(node.name)),
        !.licence        = try_get_str(node.licence),
        !.updated        = node.time,
        !.download_size  = map_store(@, node.arch, node.size_package),
        !.install_size   = map_store(@, node.arch, node.size_installed),
        !.download_url   = map_store(@, node.arch, node.href),
        !.checksum_type  = map_store(@, node.arch, node.checksum_type),
        !.checksum_value = map_store(@, node.arch, node.checksum)]

\* except Exception as e: p.description = try_get_str("description");
\* p.debug_yaml_errors.append(e)
catch_parse_error(r, description) ==
    IF r.exc = "none" THEN r.p
    ELSE [r.p EXCEPT !.description = description,
                     !.debug_yaml_errors = Append(@, r.exc)]

\* lines 367-368: PackageApplicationCategory.library is evaluated for a name
\* that starts with lib, and raises AttributeError when the enum has no
\* such member
add_library(p) ==
    IF ~startswith(p.name, s_lib) THEN Ret(p)
    ELSE IF ~category_has_member("library") THEN Raise(p, "AttributeError")
    ELSE Ret([p EXCEPT !.categories = set_add(@, category_member("library"))])

\* Package.from_node(dom_element, repo_arch).  node holds the texts and
\* attributes of the element and, as node.yaml, what yaml_load does on the
\* last paragraph of its description.  Returns [p, exc]; exc is "none" when
\* the record p is returned.  name_to_title raises at line 352, outside the
\* try.
from_node(node, repo_arch) ==
    IF name_to_title_raises(node.name)
    THEN Raise(Package(node.name), "IndexError")
    ELSE add_library(
           catch_parse_error(
             parse_description(new_package(node, repo_arch),
                               try_get_str(node.description),
                               node.name, node.yaml),
             try_get_str(node.description)))

\* other_pkg.<map>[arch] on an architecture the map has no entry for
merge_arch_raises(self, other_pkg) ==
    \E arch \in other_pkg.archs :
        \/ arch \notin DOMAIN other_pkg.download_size
        \/ arch \notin DOMAIN other_pkg.install_size
        \/ arch \notin DOMAIN other_pkg.download_url
        \/ arch \notin DOMAIN other_pkg.checksum_type
        \/ arch \notin DOMAIN other_pkg.checksum_value

\* merge_map that keeps an entry self already has (setdefault)
merge_map_keep(self_map, other_map, archs) ==
    [a \in (DOMAIN self_map) \cup archs |->
        IF a \in DOMAIN self_map THEN self_map[a] ELSE other_map[a]]

\* one per-architecture map of self after the loop of merge_arch
merge_map(self_map, other_map, archs) ==
    [a \in (DOMAIN self_map) \cup archs |->
        IF a \in archs THEN other_map[a] ELSE self_map[a]]

\* merge_arch adding the size to the entry self already has
merge_arch_sum(self, other_pkg) ==
    IF other_pkg.archs = {} THEN self
    ELSE [self EXCEPT
            !.repos          = @ \cup other_pkg.repos,
            !.download_size  = [a \in (DOMAIN @) \cup other_pkg.archs |->
                                   IF a \notin other_pkg.archs THEN @[a]
                                   ELSE IF a \in DOMAIN @
                                        THEN @[a] + other_pkg.download_size[a]
                                        ELSE other_pkg.download_size[a]],
            !.install_size   = merge_map(@, other_pkg.install_size, other_pkg.archs),
            !.download_url   = merge_map(@, other_pkg.download_url, other_pkg.archs),
            !.checksum_type  = merge_map(@, other_pkg.checksum_type, other_pkg.archs),
            !.checksum_value = merge_map(@, other_pkg.checksum_value, other_pkg.archs),
            !.archs          = @ \cup other_pkg.archs]

\* merge_arch without the copy of checksum_value
merge_arch_no_checksum(self, other_pkg) ==
    IF other_pkg.archs = {} THEN self
    ELSE [self EXCEPT
            !.repos          = @ \cup other_pkg.repos,
            !.download_size  = merge_map(@, other_pkg.download_size, other_pkg.archs),
            !.install_size   = merge_map(@, other_pkg.install_size, other_pkg.archs),
            !.download_url   = merge_map(@, other_pkg.download_url, other_pkg.archs),
            !.checksum_type  = merge_map(@, other_pkg.checksum_type, other_pkg.archs),
            !.archs          = @ \cup other_pkg.archs]

\* merge_arch without the union of repos
merge_arch_no_repos(self, other_pkg) ==
    IF other_pkg.archs = {} THEN self
    ELSE [self EXCEPT
            !.download_size  = merge_map(@, other_pkg.download_size, other_pkg.archs),
            !.install_size   = merge_map(@, other_pkg.install_size, other_pkg.archs),
            !.download_url   = merge_map(@, other_pkg.download_url, other_pkg.archs),
            !.checksum_type  = merge_map(@, other_pkg.checksum_type, other_pkg.archs),
            !.checksum_value = merge_map(@, other_pkg.checksum_value, other_pkg.archs),
            !.archs          = @ \cup other_pkg.archs]

\* merge_arch that also takes the later of the two build times
merge_arch_updated(self, other_pkg) ==
    IF other_pkg.archs = {} THEN self
    ELSE [self EXCEPT
            !.repos          = @ \cup other_pkg.repos,
            !.download_size  = merge_map(@, other_pkg.download_size, other_pkg.archs),
            !.install_size   = merge_map(@, other_pkg.install_size, other_pkg.archs),
            !.download_url   = merge_map(@, other_pkg.download_url, other_pkg.archs),
            !.checksum_type  = merge_map(@, other_pkg.checksum_type, other_pkg.archs),
            !.checksum_value = merge_map(@, other_pkg.checksum_value, other_pkg.archs),
            !.archs          = @ \cup other_pkg.archs,
            !.updated        = IF other_pkg.updated > @ THEN other_pkg.updated ELSE @]

\* Package.merge_arch(self, other_pkg): self after the loop.  The loop body
\* runs once per architecture of other_pkg, so nothing changes when
\* other_pkg.archs is empty.
merge_arch(self, other_pkg) ==
    IF other_pkg.archs = {} THEN self
    ELSE [self EXCEPT
            !.repos          = @ \cup other_pkg.repos,
            !.download_size  = merge_map(@, other_pkg.download_size, other_pkg.archs),
            !.install_size   = merge_map(@, other_pkg.install_size, other_pkg.archs),
            !.download_url   = merge_map(@, other_pkg.download_url, other_pkg.archs),
            !.checksum_type  = merge_map(@, other_pkg.checksum_type, other_pkg.archs),
            !.checksum_value = merge_map(@, other_pkg.checksum_value, other_pkg.archs),
            !.archs          = @ \cup other_pkg.archs]

(***************************************************************************)
(* Inputs: well-formed <package> nodes and repository identifiers.         *)
(***************************************************************************)
Digits == <<"0","1","2","3","4","5","6","7","8","9">>

Digit(n) == Digits[n + 1]

s_foo == <<"f","o","o">>

s_libfoo == <<"l","i","b","f","o","o">>

s_aarch64 == <<"a","a","r","c","h","6","4">>

s_armv7hl == <<"a","r","m","v","7","h","l">>

repo_aarch64 == <<"4",".","5",".","0",".","2","4","_">> \o s_aarch64

repo_armv7hl == <<"4",".","5",".","0",".","2","4","_">> \o s_armv7hl

\* what yaml_load does on a block: it returns value, or raises
YamlReturns(value) == [raises |-> "none", value |-> value]

YamlRaises(exc) == [raises |-> exc, value |-> PyNone]

\* A <package> element with every required element present; build k sets
\* the texts and attributes that differ from one build to the next.
MkNode(name, arch, k, description, yaml) ==
    [ name           |-> name,
      arch           |-> arch,
      summary        |-> <<"s", Digit(k)>>,
      version        |-> [epoch |-> <<"0">>, ver |-> <<"1", ".", Digit(k)>>, rel |-> <<"1">>],
      url            |-> <<"u">>,
      licence        |-> <<"M","I","T">>,
      time           |-> 1000 + k,
      size_package   |-> 100 + k,
      size_installed |-> 200 + k,
      href           |-> arch \o <<"/">> \o name \o <<"-">> \o <<Digit(k)>>,
      checksum_type  |-> <<"s","h","a">>,
      checksum       |-> <<"c", Digit(k)>>,
      description    |-> description,
      yaml           |-> yaml ]

\* repo_name.split("_")[1]
repo_suffix(repo_name) == split(repo_name, "_")[2]

Builds == {1, 2}

Repos == {repo_aarch64, repo_armv7hl}

Archs == {s_aarch64, s_armv7hl, s_noarch}

\* names of the record algebra: one plain, one starting with lib, one bare
\* harbour
Names == {s_foo, s_libfoo, s_harbour}

\* a prose-only description: yaml_load returns the paragraph as a str
PlainDescription == <<"a", "\n", "b">>

Nodes ==
    {MkNode(name, arch, k, PlainDescription, YamlReturns(PyStr(<<"a", " ", "b">>))) :
        name \in Names, arch \in Archs, k \in Builds}

\* A repository holds the packages of its own architecture and noarch ones.
node_in_repo(node, repo_arch) == node.arch \in {repo_suffix(repo_arch), s_noarch}

MaxPkgs == 2

MaxMerges == 2

(***************************************************************************)
(* State.  heap: the Package objects, by identity 1..Len(heap).  last: the *)
(* call just made.  raised: the exception the call ended with, or "none".  *)
(* merges: how many merge_arch calls were made.  The others are the locals *)
(* of load_repo: pc is the pass it is in, repos its list of repository     *)
(* identifiers, repo_index the position in that list of the repository     *)
(* being read, nodes_read how many <package> elements were read from the   *)
(* primary indexes so far, pkgs the map read_repo_data is building,        *)
(* all_pkgs and all_pkg_list the maps of load_repo (a dict is the sequence *)
(* of its <<key, value>> pairs in insertion order, a value being a heap    *)
(* index), queue what remains of the loop of the pass, result the          *)
(* RepoInfo.                                                               *)
(***************************************************************************)
VARIABLES heap, last, raised, merges,
          pc, repos, repo_index, nodes_read, pkgs, all_pkgs, all_pkg_list,
          queue, result

loadvars == <<pc, repos, repo_index, nodes_read, pkgs, all_pkgs, all_pkg_list,
              queue, result>>

vars == <<heap, last, raised, merges, loadvars>>

NoResult == [packages |-> <<>>, repos |-> <<>>, version |-> <<>>]

NoNode == [name |-> <<>>]

Call(op, target, source, node, repo_arch) ==
    [op |-> op, target |-> target, source |-> source, node |-> node,
     repo_arch |-> repo_arch]

Init ==
    /\ heap = <<>>
    /\ last = Call("init", NoRef, NoRef, NoNode, <<>>)
    /\ raised = "none"
    /\ merges = 0
    /\ pc = "start"
    /\ repos = <<>>
    /\ repo_index = 0
    /\ nodes_read = 0
    /\ pkgs = <<>>
    /\ all_pkgs = <<>>
    /\ all_pkg_list = <<>>
    /\ queue = <<>>
    /\ result = NoResult

\* the heap after p = Package.from_node(...) returned r
heap_after_from_node(r) == IF r.exc = "none" THEN Append(heap, r.p) ELSE heap

\* what a from_node call that ended as r leaves behind
FromNodeReturns(r, node, repo_arch) ==
    /\ heap' = heap_after_from_node(r)
    /\ raised' = r.exc
    /\ last' = Call("from_node", IF r.exc = "none" THEN Len(heap) + 1 ELSE NoRef,
                    NoRef, node, repo_arch)

\* p = Package.from_node(node, repo_arch): a new object, unless it raises
FromNode ==
    \E node \in Nodes, repo_arch \in Repos :
        /\ Len(heap) < MaxPkgs
        /\ node_in_repo(node, repo_arch)
        /\ FromNodeReturns(from_node(node, repo_arch), node, repo_arch)
        /\ UNCHANGED <<merges, loadvars>>

\* heap[target].merge_arch(heap[source])
MergeArch ==
    \E target \in 1..Len(heap), source \in 1..Len(heap) :
        /\ merges < MaxMerges
        /\ IF merge_arch_raises(heap[target], heap[source])
           THEN /\ raised' = "KeyError"
                /\ UNCHANGED heap
           ELSE /\ raised' = "none"
                /\ heap' = [heap EXCEPT
                              ![target] = merge_arch(heap[target], heap[source])]
        /\ last' = Call("merge_arch", target, source, NoNode, <<>>)
        /\ merges' = merges + 1
        /\ UNCHANGED loadvars

Next == FromNode \/ MergeArch

Spec == Init /\ [][Next]_vars

(***************************************************************************)
(* The extractor on its own: from_node on nodes that differ in the         *)
(* description and in what yaml_load makes of its last paragraph.  In a    *)
(* description "a" stands for any character that is not whitespace; the    *)
(* value yaml_load returns for the block is an input of its own.           *)
(***************************************************************************)
MaxDescLen == 4

DescriptionChars == {"a", " ", "\n"}

Descriptions == UNION {[1..n -> DescriptionChars] : n \in 0..MaxDescLen}

s_Foo == <<"F","o","o">>

s_Game == <<"G","a","m","e">>

s_Nope == <<"N","o","p","e">>

s_Home == <<"H","o","m","e">>

s_desktop_application ==
    <<"d","e","s","k","t","o","p","-","a","p","p","l","i","c","a","t","i","o","n">>

\* yaml_load on a block that is no mapping: the two exceptions that
\* parse_description catches, one it does not (an undefined alias), and
\* values of the other types
PlainOutcomes ==
    { YamlRaises("ParserError"), YamlRaises("ScannerError"),
      YamlRaises("ComposerError"),
      YamlReturns(PyNone), YamlReturns(PyStr(<<"a">>)), YamlReturns(PyInt(5)),
      YamlReturns(PyBool(TRUE)), YamlReturns(PyList(<<PyStr(<<"a">>)>>)) }

\* a mapping with every key, each value of the shape the extractor expects
FullMapping ==
    << <<PyStr(k_Title), PyStr(s_Foo)>>,
       <<PyStr(k_PackageName), PyStr(<<"P">>)>>,
       <<PyStr(k_Type), PyStr(s_desktop_application)>>,
       <<PyStr(k_PackageIcon), PyStr(<<"i">>)>>,
       <<PyStr(k_Icon), PyStr(<<"j">>)>>,
       <<PyStr(k_Screenshots), PyList(<<PyStr(<<"s">>)>>)>>,
       <<PyStr(k_DeveloperName), PyStr(<<"d">>)>>,
       <<PyStr(k_PackagedBy), PyStr(<<"p">>)>>,
       <<PyStr(k_Custom),
         PyDict(<< <<PyStr(k_Repo), PyStr(<<"r">>)>>,
                   <<PyStr(k_PackagingRepo), PyStr(<<"q">>)>>,
                   <<PyStr(k_DescriptionMD), PyStr(<<"m">>)>> >>)>>,
       <<PyStr(k_Links), PyDict(<< <<PyStr(s_Home), PyStr(<<"u">>)>> >>)>>,
       <<PyStr(k_Url), PyDict(<< <<PyStr(<<"U">>), PyStr(<<"v">>)>> >>)>>,
       <<PyStr(k_Categories), PyList(<<PyStr(s_Game)>>)>> >>

MappingKeys == {FullMapping[i][1].v : i \in 1..Len(FullMapping)}

\* the values a key of the mapping is given
ValueShapes ==
    { PyNone, PyStr(<<>>), PyStr(s_Foo), PyStr(s_Game), PyInt(5), PyBool(TRUE),
      PyList(<<>>), PyList(<<PyStr(s_Game)>>),
      PyList(<<PyStr(s_Game), PyStr(s_Nope)>>),
      PyList(<<PyInt(5)>>),
      PyList(<< PyDict(<< <<PyStr(k_Repo), PyStr(<<"r">>)>> >>),
                PyDict(<< <<PyStr(k_DescriptionMD), PyStr(<<"m">>)>> >>) >>),
      PyDict(<<>>),
      PyDict(<< <<PyStr(s_Home), PyStr(<<"u">>)>> >>),
      PyDict(<< <<PyStr(s_Game), PyStr(<<"u">>)>> >>),
      PyDict(<< <<PyInt(5), PyStr(<<"u">>)>> >>) }

\* the pairs of a mapping whose keys are in keys
restrict_mapping(pairs, keys) == SelectSeq(pairs, LAMBDA kv : kv[1].v \in keys)

MappingOutcomes ==
    {YamlReturns(PyDict(restrict_mapping(FullMapping, keys))) :
        keys \in SUBSET MappingKeys}
    \cup
    {YamlReturns(PyDict(dict_set(FullMapping, PyStr(key), shape))) :
        key \in MappingKeys, shape \in ValueShapes}
    \cup
    {YamlReturns(PyDict(<< <<PyStr(key), shape>> >>)) :
        key \in MappingKeys, shape \in ValueShapes}

\* descriptions the mapping outcomes are tried on: two prose paragraphs and
\* the block; the block alone
MappingDescriptions ==
    { <<"a", "\n", "a", "\n", "\n", "a", "\n", "\n", "a">>, <<"a">> }

ParseNode(description, yaml) == MkNode(s_foo, s_aarch64, 1, description, yaml)

ParseNodes ==
    {ParseNode(d, y) : d \in Descriptions, y \in PlainOutcomes}
    \cup {ParseNode(d, y) : d \in MappingDescriptions, y \in MappingOutcomes}

\* p = Package.from_node(node, repo_arch) on one of the extractor's nodes
ParseFromNode ==
    \E node \in ParseNodes :
        /\ heap = <<>>
        /\ FromNodeReturns(from_node(node, repo_aarch64), node, repo_aarch64)
        /\ UNCHANGED <<merges, loadvars>>

NextParse == ParseFromNode

SpecParse == Init /\ [][NextParse]_vars

(***************************************************************************)
(* load_repo of repo_loader.py, given the list of repositories.  Its       *)
(* inputs are drawn where the code first reads them: the elements of a     *)
(* primary index one by one, what save_repo_data found for a repository    *)
(* when read_repo_data opens it, CONFIG.download_extra_metadata at line    *)
(* 136, and the answer to each request of load_remote_descriptions.        *)
(***************************************************************************)
MaxRepos == 2

\* the <package> elements of all the primary indexes together
MaxNodes == 3

s_foo_debuginfo == s_foo \o s_debuginfo

s_foo_debugsource == s_foo \o s_debugsource

repo_old_aarch64 == <<"4",".","4",".","0",".","7","2","_">> \o s_aarch64

LoadRepoNames == {repo_aarch64, repo_armv7hl, repo_old_aarch64}

\* the lists of repositories given to load_repo: no identifier twice
LoadRepoLists ==
    {l \in UNION {[1..n -> LoadRepoNames] : n \in 1..MaxRepos} :
        \A a \in 1..Len(l), b \in 1..Len(l) : a # b => l[a] # l[b]}

LoadNames == {s_foo, s_libfoo}

\* the debug packages of foo
LoadDebugNames == {s_foo_debuginfo, s_foo_debugsource}

\* a description of one prose paragraph and a block
BlockDescription == <<"a", "\n", "\n", "a">>

\* what yaml_load returns for the block of BlockDescription
LoadMapping ==
    << <<PyStr(k_Title), PyStr(s_Game)>>,
       <<PyStr(k_Custom), PyDict(<< <<PyStr(k_DescriptionMD), PyStr(<<"m">>)>> >>)>>,
       <<PyStr(k_Categories), PyList(<<PyStr(s_Game)>>)>> >>

\* build 1 has a prose description, later builds one with a block
LoadNode(name, arch, k) ==
    IF k = 1
    THEN MkNode(name, arch, k, PlainDescription, YamlReturns(PyStr(<<"a", " ", "b">>)))
    ELSE MkNode(name, arch, k, BlockDescription, YamlReturns(PyDict(LoadMapping)))

\* the <package> elements the primary index of a repository may hold: the
\* builds of the packages, and one build of each debug package
LoadNodes(repo_name) ==
    {LoadNode(name, repo_suffix(repo_name), k) : name \in LoadNames, k \in Builds}
    \cup {LoadNode(name, repo_suffix(repo_name), 1) : name \in LoadDebugNames}

\* list(d.values())
dict_values(d) == [j \in 1..Len(d) |-> d[j][2]]

\* the outcome of a pass over the heap h: the heap it leaves, the map it
\* built, the exception it ended with
Pass(h, d, exc) == [heap |-> h, pkgs |-> d, exc |-> exc]

\* read_pkg with pkgs[pkg.name] = pkg on every element
read_pkg_replace(h, d, ref) == Pass(h, dict_set(d, h[ref].name, ref), "none")

\* read_repo_data lines 198-201, pkg being the new object h[ref]
read_pkg(h, d, ref) ==
    IF dict_has(d, h[ref].name)
    THEN IF merge_arch_raises(h[dict_get(d, h[ref].name, NoRef)], h[ref])
         THEN Pass(h, d, "KeyError")
         ELSE Pass([h EXCEPT ![dict_get(d, h[ref].name, NoRef)] = merge_arch(@, h[ref])],
                   d, "none")
    ELSE Pass(h, dict_set(d, h[ref].name, ref), "none")

\* read_repo_data lines 197-201 on one element, r being what from_node did
read_node(r, d) ==
    IF r.exc # "none" THEN Pass(heap, d, r.exc)
    ELSE read_pkg(Append(heap, r.p), d, Len(heap) + 1)

\* ChangelogEntry.from_node(name, xmlPkg): the entries of one package
changelog_of(name) == [k |-> "changelog", v |-> name]

\* read_repo_data lines 206-209 for the elements of the other index, which
\* name the packages of d from position j on
RECURSIVE read_other(_, _, _)
read_other(h, d, j) ==
    IF j > Len(d) THEN h
    ELSE read_other([h EXCEPT ![d[j][2]].changelog_entries = changelog_of(d[j][1])],
                    d, j + 1)

\* link_one that stores the debugsource record as debuginfo_package
link_one_debuginfo_only(h, d, name, ref) ==
    IF endswith(name, s_debuginfo)
    THEN IF dict_has(d, removesuffix(name, s_debuginfo))
         THEN Pass([h EXCEPT ![dict_get(d, removesuffix(name, s_debuginfo), NoRef)]
                                  .debuginfo_package = ref], d, "none")
         ELSE Pass(h, d, "KeyError")
    ELSE IF endswith(h[ref].name, s_debugsource)
    THEN IF dict_has(d, removesuffix(name, s_debugsource))
         THEN Pass([h EXCEPT ![dict_get(d, removesuffix(name, s_debugsource), NoRef)]
                                  .debuginfo_package = ref], d, "none")
         ELSE Pass(h, d, "KeyError")
    ELSE Pass(h, d, "none")

\* link_one that skips a debug package whose base package is missing
link_one_skip(h, d, name, ref) ==
    IF endswith(name, s_debuginfo)
    THEN IF dict_has(d, removesuffix(name, s_debuginfo))
         THEN Pass([h EXCEPT ![dict_get(d, removesuffix(name, s_debuginfo), NoRef)]
                                  .debuginfo_package = ref], d, "none")
         ELSE Pass(h, d, "none")
    ELSE IF endswith(h[ref].name, s_debugsource)
    THEN IF dict_has(d, removesuffix(name, s_debugsource))
         THEN Pass([h EXCEPT ![dict_get(d, removesuffix(name, s_debugsource), NoRef)]
                                  .debugsource_package = ref], d, "none")
         ELSE Pass(h, d, "none")
    ELSE Pass(h, d, "none")

\* link_debug_packages, the body of the loop for one item of pkgs
link_one(h, d, name, ref) ==
    IF endswith(name, s_debuginfo)
    THEN IF dict_has(d, removesuffix(name, s_debuginfo))
         THEN Pass([h EXCEPT ![dict_get(d, removesuffix(name, s_debuginfo), NoRef)]
                                  .debuginfo_package = ref], d, "none")
         ELSE Pass(h, d, "KeyError")
    ELSE IF endswith(h[ref].name, s_debugsource)
    THEN IF dict_has(d, removesuffix(name, s_debugsource))
         THEN Pass([h EXCEPT ![dict_get(d, removesuffix(name, s_debugsource), NoRef)]
                                  .debugsource_package = ref], d, "none")
         ELSE Pass(h, d, "KeyError")
    ELSE Pass(h, d, "none")

\* link_debug_packages from item j of pkgs on, r being the pass so far
RECURSIVE link_from(_, _)
link_from(r, j) ==
    IF r.exc # "none" \/ j > Len(r.pkgs) THEN r
    ELSE link_from(link_one(r.heap, r.pkgs, r.pkgs[j][1], r.pkgs[j][2]), j + 1)

link_debug_packages(h, d) == link_from(Pass(h, d, "none"), 1)

\* the records in the order of the loops of lines 129-130
RECURSIVE combine_order(_)
combine_order(all) ==
    IF all = <<>> THEN <<>>
    ELSE dict_values(Head(all)[2]) \o combine_order(Tail(all))

\* load_repo lines 131-134 for the record h[ref]
combine_pkg(h, d, ref) ==
    IF dict_has(d, h[ref].name)
    THEN IF merge_arch_raises(h[dict_get(d, h[ref].name, NoRef)], h[ref])
         THEN Pass(h, d, "KeyError")
         ELSE Pass([h EXCEPT ![dict_get(d, h[ref].name, NoRef)] = merge_arch(@, h[ref])],
                   d, "none")
    ELSE Pass(h, dict_set(d, h[ref].name, ref), "none")

\* pkgs_with_markdown that keeps every package
pkgs_with_or_without_markdown(h, refs) == refs

\* [pkg for pkg in pkgs if pkg.markdown_url]
pkgs_with_markdown(h, refs) == SelectSeq(refs, LAMBDA ref : truthy(h[ref].markdown_url))

\* Markup(markdown(r.text, output_format="html"))
Markup(text) == [k |-> "Markup", v |-> text]

\* RepoInfo(list(all_pkg_list.values()), repos, repos[0].split('_')[0])
RepoInfo(packages, repo_list, version) ==
    [packages |-> packages, repos |-> repo_list, version |-> version]

\* the call this step made, for the steps that call merge_arch or insert
PassCall(op, r, d, ref, node, repo_name) ==
    IF r.exc # "none" THEN Call(op, NoRef, NoRef, node, repo_name)
    ELSE IF dict_has(d, r.heap[ref].name)
    THEN Call("merge_arch", dict_get(d, r.heap[ref].name, NoRef), ref, node, repo_name)
    ELSE Call(op, ref, NoRef, node, repo_name)

\* load_repo(..., repos=repo_list, ...) is called
LoadRepo ==
    \E repo_list \in LoadRepoLists :
        /\ pc = "start"
        /\ heap = <<>>
        /\ pc' = "read"
        /\ repos' = repo_list
        /\ repo_index' = 1
        /\ last' = Call("load_repo", NoRef, NoRef, NoNode, <<>>)
        /\ UNCHANGED <<heap, raised, merges, nodes_read, pkgs, all_pkgs,
                       all_pkg_list, queue, result>>

\* the loop over the pass is left with exception exc
Abort(exc) ==
    /\ pc' = "raised"
    /\ raised' = exc

\* what the step of read_repo_data that ended as r leaves behind
ReadNodeReturns(r, node) ==
    /\ heap' = r.heap
    /\ pkgs' = r.pkgs
    /\ last' = PassCall("from_node", r, pkgs, Len(heap) + 1, node, repos[repo_index])
    /\ IF r.exc # "none" THEN Abort(r.exc)
       ELSE UNCHANGED <<pc, raised>>

\* read_repo_data: the next <package> element of the primary index
ReadNode ==
    /\ pc = "read"
    /\ nodes_read < MaxNodes
    /\ \E node \in LoadNodes(repos[repo_index]) :
          ReadNodeReturns(read_node(from_node(node, repos[repo_index]), pkgs), node)
    /\ nodes_read' = nodes_read + 1
    /\ UNCHANGED <<merges, repos, repo_index, all_pkgs, all_pkg_list, queue, result>>

\* what save_repo_data returns at line 178, as the argument of the call
NoRepoInfo == [name |-> <<>>, repo_info |-> PyNone]

\* save_repo_data found no primary index and returned None:
\* repo_info["primary"] raises TypeError
NoPrimary ==
    /\ pc = "read"
    /\ pkgs = <<>>
    /\ Abort("TypeError")
    /\ last' = Call("read_repo_data", NoRef, NoRef, NoRepoInfo, repos[repo_index])
    /\ UNCHANGED <<heap, merges, repos, repo_index, nodes_read, pkgs, all_pkgs,
                   all_pkg_list, queue, result>>

\* read_repo_data returns pkgs and load_repo stores it at line 122
ReadReturns ==
    /\ pc' = "link"
    /\ all_pkgs' = dict_set(all_pkgs, repo_suffix(repos[repo_index]), pkgs)
    /\ last' = Call("read_repo_data", NoRef, NoRef, NoNode, repos[repo_index])
    /\ UNCHANGED <<raised, merges, repos, repo_index, nodes_read, pkgs,
                   all_pkg_list, queue, result>>

\* the primary index has no more elements and there is an other index:
\* either it names the packages of pkgs, which get their changelog, or it
\* names a package that pkgs lacks and pkgs[name] raises KeyError
ReadOther ==
    \E known \in BOOLEAN :
        /\ pc = "read"
        /\ heap' = read_other(heap, pkgs, 1)
        /\ IF known
           THEN ReadReturns
           ELSE /\ Abort("KeyError")
                /\ last' = Call("read_repo_data", NoRef, NoRef, NoNode, repos[repo_index])
                /\ UNCHANGED <<merges, repos, repo_index, nodes_read, pkgs,
                               all_pkgs, all_pkg_list, queue, result>>

\* the primary index has no more elements and repo_info has no "other"
NoOther ==
    /\ pc = "read"
    /\ ReadReturns
    /\ UNCHANGED heap

\* LinkReturns that leaves the loop of line 119 after the first repository
LinkReturns_first_only(r) ==
    /\ heap' = r.heap
    /\ last' = Call("link_debug_packages", NoRef, NoRef, NoNode, repos[repo_index])
    /\ IF r.exc # "none"
       THEN /\ Abort(r.exc)
            /\ UNCHANGED <<repo_index, nodes_read, pkgs, queue>>
       ELSE /\ UNCHANGED raised
            /\ repo_index' = repo_index + 1
            /\ pkgs' = <<>>
            /\ UNCHANGED nodes_read
            /\ pc' = "combine"
            /\ queue' = combine_order(all_pkgs)

\* what link_debug_packages leaves behind when it ended as r: the next
\* repository is read, or the loop of line 119 is over
LinkReturns(r) ==
    /\ heap' = r.heap
    /\ last' = Call("link_debug_packages", NoRef, NoRef, NoNode, repos[repo_index])
    /\ IF r.exc # "none"
       THEN /\ Abort(r.exc)
            /\ UNCHANGED <<repo_index, nodes_read, pkgs, queue>>
       ELSE /\ UNCHANGED raised
            /\ repo_index' = repo_index + 1
            /\ pkgs' = <<>>
            /\ UNCHANGED nodes_read
            /\ IF repo_index < Len(repos)
               THEN pc' = "read" /\ UNCHANGED queue
               ELSE pc' = "combine" /\ queue' = combine_order(all_pkgs)

\* link_debug_packages(all_pkgs[arch])
LinkDebug ==
    /\ pc = "link"
    /\ LinkReturns(link_debug_packages(
                     heap, dict_get(all_pkgs, repo_suffix(repos[repo_index]), <<>>)))
    /\ UNCHANGED <<merges, repos, all_pkgs, all_pkg_list, result>>

\* what one round of the loop of lines 129-134 leaves behind
CombineReturns(r) ==
    /\ heap' = r.heap
    /\ all_pkg_list' = r.pkgs
    /\ last' = PassCall("insert", r, all_pkg_list, Head(queue), NoNode, <<>>)
    /\ IF r.exc # "none" THEN Abort(r.exc) /\ UNCHANGED queue
       ELSE queue' = Tail(queue) /\ UNCHANGED <<pc, raised>>

\* the loop of lines 129-134, one record
Combine ==
    /\ pc = "combine"
    /\ queue # <<>>
    /\ CombineReturns(combine_pkg(heap, all_pkg_list, Head(queue)))
    /\ UNCHANGED <<merges, repos, repo_index, nodes_read, pkgs, all_pkgs, result>>

\* CONFIG.download_extra_metadata is true: load_remote_descriptions is
\* called and builds pkgs_with_markdown
BeginRemote ==
    /\ pc = "combine"
    /\ queue = <<>>
    /\ pc' = "remote"
    /\ queue' = pkgs_with_markdown(heap, dict_values(all_pkg_list))
    /\ last' = Call("load_remote_descriptions", NoRef, NoRef, NoNode, <<>>)
    /\ UNCHANGED <<heap, raised, merges, repos, repo_index, nodes_read, pkgs,
                   all_pkgs, all_pkg_list, result>>

\* what the request of line 243 ended with, as the node of the call record
Answer(answer) == [name |-> <<>>, answer |-> answer]

\* load_remote_descriptions, one package: requests.get raises, or answers
\* with r.ok false, or with r.ok true and a text
LoadRemote ==
    \E answer \in {"ConnectionError", "error status", "ok"} :
        /\ pc = "remote"
        /\ queue # <<>>
        /\ last' = Call("requests.get", Head(queue), NoRef, Answer(answer), <<>>)
        /\ IF answer = "ConnectionError"
           THEN Abort(answer) /\ UNCHANGED <<heap, queue>>
           ELSE /\ queue' = Tail(queue)
                /\ heap' = IF answer = "ok"
                           THEN [heap EXCEPT ![Head(queue)].description = Markup(<<"t">>)]
                           ELSE heap
                /\ UNCHANGED <<pc, raised>>
        /\ UNCHANGED <<merges, repos, repo_index, nodes_read, pkgs, all_pkgs,
                       all_pkg_list, result>>

\* line 140: the RepoInfo is built, after load_remote_descriptions returned
\* or with CONFIG.download_extra_metadata false
Finish ==
    /\ \/ pc = "remote" /\ queue = <<>>
       \/ pc = "combine" /\ queue = <<>>
    /\ pc' = "done"
    /\ result' = RepoInfo(dict_values(all_pkg_list), repos, split(repos[1], "_")[1])
    /\ last' = Call("RepoInfo", NoRef, NoRef, NoNode, <<>>)
    /\ UNCHANGED <<heap, raised, merges, repos, repo_index, nodes_read, pkgs,
                   all_pkgs, all_pkg_list, queue>>

NextLoad ==
    \/ LoadRepo
    \/ ReadNode
    \/ NoPrimary
    \/ ReadOther
    \/ NoOther
    \/ LinkDebug
    \/ Combine
    \/ BeginRemote
    \/ LoadRemote
    \/ Finish

SpecLoad == Init /\ [][NextLoad]_vars



(***************************************************************************)
(* Claims on the record algebra, checked under Spec.                       *)
(***************************************************************************)
\* the five per-architecture maps of a record
PerArchMaps(p) ==
    <<p.download_size, p.install_size, p.download_url, p.checksum_type,
      p.checksum_value>>

MergeReturned == last.op = "merge_arch" /\ raised = "none"

\* C1: after merge_arch(target, source), target.archs is the old target.archs
\* united with source.archs, each of the five per-architecture maps of target
\* holds the source's entry for every architecture of source.archs, and
\* target.repos is the old target.repos united with source.repos.
C1_MergeArchContract ==
    [][ MergeReturned' =>
          LET old    == heap[last'.target]
              source == heap[last'.source]
              new    == heap'[last'.target]
          IN  /\ new.archs = old.archs \cup source.archs
              /\ new.repos = old.repos \cup source.repos
              /\ \A a \in source.archs :
                    \A m \in 1..5 :
                        /\ a \in DOMAIN PerArchMaps(new)[m]
                        /\ PerArchMaps(new)[m][a] = PerArchMaps(source)[m][a]
      ]_vars

\* a merge of a record of another architecture, repository and build has
\* returned, onto a record that had an entry for one of its architectures
C1_Witness ==
    /\ MergeReturned
    /\ last.target # last.source
    /\ Cardinality(heap[last.target].archs) >= 2
    /\ Cardinality(heap[last.target].repos) >= 2
    /\ heap[last.target].updated # heap[last.source].updated

\* C3: merge_arch is idempotent: merge_arch(A, B) applied again to the A and
\* B it left gives the same A: archs, repos and the five maps (and every
\* other field) are as after the first call.
C3_MergeArchIdempotent ==
    MergeReturned =>
        merge_arch(heap[last.target], heap[last.source]) = heap[last.target]

\* a merge has returned that overwrote an entry of the target with another
\* build's entry
C3_Witness ==
    /\ MergeReturned
    /\ last.target # last.source
    /\ \E a \in heap[last.source].archs :
          heap[last.target].download_size[a] # 100 + (heap[last.target].updated - 1000)

\* C4: every architecture in archs of a record built by from_node and changed
\* by merge_arch calls is a key of each of the five per-architecture maps.
C4_ArchsHaveEntries ==
    \A i \in 1..Len(heap) :
        \A a \in heap[i].archs :
            \A m \in 1..5 : a \in DOMAIN PerArchMaps(heap[i])[m]

\* a record with two or more architectures, after two merge_arch calls
C4_Witness ==
    \E i \in 1..Len(heap) : Cardinality(heap[i].archs) >= 2 /\ merges >= 2

\* every architecture of p other than noarch is the suffix of one of p.repos
ReposCoverArchs(p) ==
    \A a \in p.archs \ {s_noarch} : \E r \in p.repos : repo_suffix(r) = a

C7_FromNodeOneArch ==
    (last.op = "from_node" /\ raised = "none") =>
        /\ heap[last.target].archs = {last.node.arch}
        /\ \A m \in 1..5 :
              DOMAIN PerArchMaps(heap[last.target])[m] = {last.node.arch}

\* from_node returned the record of a noarch node of an aarch64 repository
C7_Witness ==
    /\ last.op = "from_node"
    /\ raised = "none"
    /\ last.node.arch = s_noarch
    /\ last.repo_arch = repo_aarch64
    /\ heap[last.target].name = last.node.name

\* C8: from_node returns a record for every well-formed node, whatever the
\* name: it never raises.
C8_FromNodeNeverRaises ==
    last.op = "from_node" => raised = "none"

(***************************************************************************)
(* Claims on the extractor, checked under SpecParse.                       *)
(***************************************************************************)
\* from_node has returned the record heap[1] of the node last.node
Extracted == last.op = "from_node" /\ raised = "none"

\* the paragraphs of the description of the node of the last call
InputParagraphs == split_paragraphs(last.node.description)

\* the description has a last paragraph and yaml_load returned a mapping
BlockIsMapping ==
    /\ InputParagraphs # <<>>
    /\ last.node.yaml.raises = "none"
    /\ last.node.yaml.value.k = "dict"

\* the description has a last paragraph and yaml_load did not return a
\* mapping: it raised, or returned a value of another type
BlockIsNoMapping ==
    /\ InputParagraphs # <<>>
    /\ ~(last.node.yaml.raises = "none" /\ last.node.yaml.value.k = "dict")

\* the paragraphs before the last one, joined
ProseBeforeBlock ==
    PyStr(join_paragraphs(SubSeq(InputParagraphs, 1, Len(InputParagraphs) - 1)))

\* the app-metadata fields of p are as from_node sets them before extraction
AppMetadataAtDefaults(p) ==
    /\ p.title = PyStr(name_to_title(p.name))
    /\ p.type = PyStr(s_generic)
    /\ p.icon = PyNone
    /\ p.screenshots = <<>>
    /\ p.links = <<>>
    /\ p.categories = {<<"O","t","h","e","r">>}
    /\ p.developer_name = PyNone
    /\ p.packager_name = PyNone
    /\ p.repo_url = PyNone
    /\ p.packaging_repo_url = PyNone
    /\ p.markdown_url = PyNone

\* C9: when the last paragraph parses to a mapping, extraction never aborts
\* partway, whatever the shape of the values: the fields whose values are
\* well-shaped are still extracted (here DeveloperName and PackagedBy, which
\* take any value) and description is the prose paragraphs with the block
\* removed.
C9_ExtractionNeverAborts ==
    (Extracted /\ BlockIsMapping) =>
        /\ heap[1].description = ProseBeforeBlock
        /\ heap[1].developer_name = yaml_get(last.node.yaml.value, k_DeveloperName)
        /\ heap[1].packager_name = yaml_get(last.node.yaml.value, k_PackagedBy)

\* C10 as claimed: whenever the last paragraph is not parseable as a mapping
\* (parsing fails, or gives null, a string, a number, a boolean, a sequence),
\* description is the join of all paragraphs, newlines collapsed, and the
\* app-metadata fields stay at their defaults.
C10_NonMappingJoinsAll ==
    (Extracted /\ BlockIsNoMapping) =>
        /\ heap[1].description = PyStr(join_paragraphs(InputParagraphs))
        /\ AppMetadataAtDefaults(heap[1])

\* yaml_load raised ParserError or ScannerError, or returned None or a str
BlockIsProse ==
    \/ last.node.yaml.raises \in {"ParserError", "ScannerError"}
    \/ /\ last.node.yaml.raises = "none"
       /\ last.node.yaml.value.k \in {"none", "str"}

\* C10 amended: when yaml_load on the last paragraph raises ParserError or
\* ScannerError or returns null or a string, description is the join of all
\* paragraphs, newlines collapsed, and no diagnostic is recorded; when it
\* raises another error or returns another value that is no mapping (a
\* number, a boolean, a sequence), description is the raw description text
\* and one diagnostic is recorded; in both cases the app-metadata fields stay
\* at their defaults.
C10_NonMappingProseOrRaw ==
    (Extracted /\ BlockIsNoMapping) =>
        /\ AppMetadataAtDefaults(heap[1])
        /\ IF BlockIsProse
           THEN /\ heap[1].description = PyStr(join_paragraphs(InputParagraphs))
                /\ heap[1].debug_yaml_errors = <<>>
           ELSE /\ heap[1].description = PyStr(last.node.description)
                /\ Len(heap[1].debug_yaml_errors) = 1

\* a description of two paragraphs whose last parses to a number: the record
\* keeps the raw text, which is not the join
C10_Witness ==
    /\ Extracted
    /\ BlockIsNoMapping
    /\ Len(InputParagraphs) = 2
    /\ last.node.yaml.raises = "none"
    /\ last.node.yaml.value.k = "int"
    /\ heap[1].description = PyStr(last.node.description)
    /\ heap[1].description # PyStr(join_paragraphs(InputParagraphs))

(***************************************************************************)
(* Claims on load_repo, checked under SpecLoad.                            *)
(***************************************************************************)
\* the record p with repos, archs and the five per-architecture maps of q
WithMergedOf(p, q) ==
    [p EXCEPT !.repos          = q.repos,
              !.archs          = q.archs,
              !.download_size  = q.download_size,
              !.install_size   = q.install_size,
              !.download_url   = q.download_url,
              !.checksum_type  = q.checksum_type,
              !.checksum_value = q.checksum_value]

\* the step called target.merge_arch(source) and the call returned
MergeStep == last'.op = "merge_arch" /\ raised' = "none"

\* C2: a merge_arch(target, source) call of read_repo_data or of the
\* combine loop changes nothing on target except repos, archs and the five
\* per-architecture maps, and changes no other record, source included (a
\* source built in the same step is as from_node returned it); and while
\* the combine loop runs, every name of the by-name map keeps the record
\* inserted first for it, with all its fields outside repos, archs and the
\* five maps as they were.
C2_MergeArchFrame ==
    [][ /\ MergeStep =>
            /\ WithMergedOf(heap'[last'.target], heap[last'.target]) = heap[last'.target]
            /\ \A ref \in 1..Len(heap) :
                   ref # last'.target => heap'[ref] = heap[ref]
            /\ last'.source > Len(heap) =>
                   heap'[last'.source] = from_node(last'.node, last'.repo_arch).p
        /\ pc = "combine" =>
            /\ Len(all_pkg_list') >= Len(all_pkg_list)
            /\ \A j \in 1..Len(all_pkg_list) :
                   /\ all_pkg_list'[j] = all_pkg_list[j]
                   /\ WithMergedOf(heap'[all_pkg_list[j][2]], heap[all_pkg_list[j][2]])
                        = heap[all_pkg_list[j][2]]
      ]_vars

\* the combine loop merged a record into the one inserted first for its
\* name, the two differing in title, description and build time
C2_Witness ==
    /\ pc = "combine"
    /\ last.op = "merge_arch"
    /\ raised = "none"
    /\ dict_get(all_pkg_list, heap[last.target].name, NoRef) = last.target
    /\ heap[last.target].title # heap[last.source].title
    /\ heap[last.target].description # heap[last.source].description
    /\ heap[last.target].updated # heap[last.source].updated
    /\ heap[last.source].archs \subseteq heap[last.target].archs

\* d has one pair per key, and each key is the name of its record
NamesAreKeys(d) ==
    /\ \A a \in 1..Len(d), b \in 1..Len(d) : d[a][1] = d[b][1] => a = b
    /\ \A a \in 1..Len(d) : heap[d[a][2]].name = d[a][1]

\* read_repo_data read a <package> element whose name pkgs already holds
SeenNameRead ==
    /\ pc = "read"
    /\ nodes_read' = nodes_read + 1
    /\ raised' = "none"
    /\ dict_has(pkgs, last'.node.name)

\* C5: the map read_repo_data builds, the maps load_repo keeps for the
\* repositories, the by-name map and the package list of the RepoInfo hold
\* at most one record per name; and a <package> element whose name
\* read_repo_data has already seen leaves the map as it is and is merged
\* into the record the map holds: that record gets the element's
\* architecture, repository and per-architecture entries and keeps its
\* other fields.
C5_NamesAreUniqueKeys ==
    /\ [](/\ NamesAreKeys(pkgs)
          /\ \A j \in 1..Len(all_pkgs) : NamesAreKeys(all_pkgs[j][2])
          /\ NamesAreKeys(all_pkg_list)
          /\ \A a \in 1..Len(result.packages), b \in 1..Len(result.packages) :
                 heap[result.packages[a]].name = heap[result.packages[b]].name
                     => a = b)
    /\ [][ SeenNameRead =>
            /\ pkgs' = pkgs
            /\ last'.node.arch \in heap'[dict_get(pkgs, last'.node.name, NoRef)].archs
            /\ last'.repo_arch \in heap'[dict_get(pkgs, last'.node.name, NoRef)].repos
            /\ heap'[dict_get(pkgs, last'.node.name, NoRef)].download_url[last'.node.arch]
                 = last'.node.href
            /\ heap'[dict_get(pkgs, last'.node.name, NoRef)].checksum_value[last'.node.arch]
                 = last'.node.checksum
            /\ WithMergedOf(heap'[dict_get(pkgs, last'.node.name, NoRef)],
                            heap[dict_get(pkgs, last'.node.name, NoRef)])
                 = heap[dict_get(pkgs, last'.node.name, NoRef)]
      ]_vars

\* a second element of the same name was read from one primary index and
\* merged: the map holds one record, with the entries of the second build
C5_Witness ==
    /\ pc = "read"
    /\ last.op = "merge_arch"
    /\ raised = "none"
    /\ Len(pkgs) = 1
    /\ Len(heap) = 2
    /\ pkgs[1][2] = 1
    /\ heap[2].name = heap[1].name
    /\ heap[1].version # heap[2].version
    /\ heap[1].download_url = heap[2].download_url

(***************************************************************************)
(* Claims on the fields the extractor stores, checked under SpecParse.     *)
(***************************************************************************)
\* the mapping yaml_load returned for the block of the node of the last call
BlockMapping == last.node.yaml.value

\* x is a sequence of names of category enum members
ValidCategories(x) == x.k = "list" /\ \A j \in 1..Len(x.v) : is_category(x.v[j])

\* C11: when the last paragraph parses to a mapping with a Title t (a
\* non-empty string) and Categories a sequence of valid category names, the
\* record has title t, categories exactly the set of the named values, and
\* description the join of the paragraphs before the block.
C11_TitleCategoriesDescription ==
    (/\ Extracted
     /\ BlockIsMapping
     /\ yaml_get(BlockMapping, k_Title).k = "str"
     /\ yaml_get(BlockMapping, k_Title).v # <<>>
     /\ yaml_has(BlockMapping, k_Categories)
     /\ ValidCategories(yaml_get(BlockMapping, k_Categories)))
    => /\ heap[1].title = yaml_get(BlockMapping, k_Title)
       /\ heap[1].categories =
              {yaml_get(BlockMapping, k_Categories).v[j].v :
                  j \in 1..Len(yaml_get(BlockMapping, k_Categories).v)}
       /\ heap[1].description = ProseBeforeBlock

\* C12: the categories of every record from_node returned are not empty,
\* whatever the block says, and are {other} when the block is no mapping or
\* a mapping without Categories.
C12_CategoriesNeverEmpty ==
    Extracted =>
        /\ heap[1].categories # {}
        /\ (BlockIsNoMapping \/ (BlockIsMapping /\ ~yaml_has(BlockMapping, k_Categories)))
               => heap[1].categories = {category_member("other")}

\* C14: the type of every record from_node returned is a value of
\* PackageApplicationType, generic when the mapping has no Type key.
C14_TypeInEnum ==
    Extracted =>
        /\ heap[1].type \in {PyStr(m.value) : m \in PackageApplicationType}
        /\ (BlockIsMapping /\ ~yaml_has(BlockMapping, k_Type))
               => heap[1].type = PyStr(s_generic)

\* the value the claim has links taken from: Links, or Url when Links is
\* absent, or nothing
LinksValueUsed ==
    IF yaml_has(BlockMapping, k_Links) THEN yaml_get(BlockMapping, k_Links)
    ELSE yaml_get_default(BlockMapping, k_Url, PyDict(<<>>))

\* C15: links is the Links value of the mapping, or the Url value when Links
\* is absent, with the keys lower-cased; when that value is present and no
\* mapping, links keeps its prior value, a diagnostic is recorded and the
\* extraction goes on: categories and description are still set.
C15_LinksOrDiagnostic ==
    (Extracted /\ BlockIsMapping) =>
        /\ (LinksValueUsed.k = "dict" /\ ~links_raises(LinksValueUsed))
               => heap[1].links = lower_keys(<<>>, LinksValueUsed.v)
        /\ LinksValueUsed.k # "dict"
               => /\ heap[1].links = <<>>
                  /\ heap[1].debug_yaml_errors # <<>>
                  /\ heap[1].description = ProseBeforeBlock
                  /\ ValidCategories(yaml_get(BlockMapping, k_Categories))
                         => heap[1].categories =
                                {yaml_get(BlockMapping, k_Categories).v[j].v :
                                    j \in 1..Len(yaml_get(BlockMapping, k_Categories).v)}

\* C16: when the Categories value of the mapping is no sequence of valid
\* category names (an unknown name, a string, a number, null, a mapping), a
\* diagnostic is recorded and categories keeps the value it had.
C16_BadCategoriesKeepDefault ==
    (/\ Extracted
     /\ BlockIsMapping
     /\ yaml_has(BlockMapping, k_Categories)
     /\ ~ValidCategories(yaml_get(BlockMapping, k_Categories)))
    => /\ heap[1].debug_yaml_errors # <<>>
       /\ heap[1].categories = {category_member("other")}

\* C13: for every node whose name starts with lib, from_node returns a
\* record, and its categories hold library next to what the block set.
\* Checked under Spec.
C13_LibHasLibrary ==
    (last.op = "from_node" /\ startswith(last.node.name, s_lib)) =>
        /\ raised = "none"
        /\ category_has_member("library")
        /\ category_member("library") \in heap[last.target].categories
        /\ category_member("other") \in heap[last.target].categories

(***************************************************************************)
(* name_to_title on its own: from_node lines 346 and 352 on package names  *)
(* made of up to MaxSegments segments joined by "-".                       *)
(***************************************************************************)
MaxSegments == 3

s_myapp == <<"m","y","a","p","p">>

TitleSegments ==
    {s_harbour, s_openrepos, s_lib, s_libfoo, s_foo, s_devel, s_myapp, <<"q","T">>}

TitleNames ==
    {join(<<"-">>, parts) :
        parts \in UNION {[1..n -> TitleSegments] : n \in 1..MaxSegments}}

\* p = Package(name); p.title = name_to_title(p.name)
NameToTitle ==
    \E name \in TitleNames :
        /\ last.op = "init"
        /\ last' = Call("name_to_title", NoRef, NoRef, [name |-> name], <<>>)
        /\ IF name_to_title_raises(name)
           THEN raised' = "IndexError" /\ UNCHANGED heap
           ELSE /\ raised' = "none"
                /\ heap' = <<[Package(name) EXCEPT !.title = PyStr(name_to_title(name))]>>
        /\ UNCHANGED <<merges, loadvars>>

NextTitle == NameToTitle

SpecTitle == Init /\ [][NextTitle]_vars

s_library_development_files == s_library \o <<" ">> \o s_development_files

\* C17: the name-derived title: harbour-myapp gives Myapp, libfoo-devel
\* gives Foo (library) (development files); a name with more than one
\* segment whose last segment is devel gets a title that ends with
\* (development files), also when its first segment starts with lib; and
\* the title has one word per segment left plus the (library) word.
C17_NameDerivedTitle ==
    (last.op = "name_to_title" /\ raised = "none") =>
        /\ last.node.name = s_harbour \o <<"-">> \o s_myapp
               => heap[1].title = PyStr(capitalize(s_myapp))
        /\ last.node.name = s_libfoo \o <<"-">> \o s_devel
               => heap[1].title =
                      PyStr(capitalize(s_foo) \o <<" ">> \o s_library_development_files)
        /\ (/\ Len(name_parts_popped(last.node.name)) > 1
            /\ endswith(last.node.name, <<"-">> \o s_devel))
               => endswith(heap[1].title.v, s_development_files)

(***************************************************************************)
(* Claims on link_debug_packages, checked under SpecLoad.  While pc is     *)
(* "link", pkgs is the map link_debug_packages is about to be given.       *)
(***************************************************************************)
\* link_debug_packages(pkgs) was called in this step and returned
LinkReturned == pc = "link" /\ pc' \in {"read", "combine"}

\* the record that d holds for the name without the suffix
BaseOf(d, name, suffix) == dict_get(d, removesuffix(name, suffix), NoRef)

\* d holds a name that ends with the suffix and whose base is ref
IsBaseOf(d, ref, suffix) ==
    \E j \in 1..Len(d) : endswith(d[j][1], suffix) /\ BaseOf(d, d[j][1], suffix) = ref

\* C18: when link_debug_packages(pkgs) returns, for every name of pkgs that
\* ends in -debuginfo the record of the base name has that record as
\* debuginfo_package, likewise for -debugsource and debugsource_package;
\* the debug links of every other record, and every other field of every
\* record, are as they were.
C18_DebugPackagesLinked ==
    [][ LinkReturned =>
          /\ \A j \in 1..Len(pkgs) :
                /\ endswith(pkgs[j][1], s_debuginfo) =>
                      heap'[BaseOf(pkgs, pkgs[j][1], s_debuginfo)].debuginfo_package
                          = pkgs[j][2]
                /\ endswith(pkgs[j][1], s_debugsource) =>
                      heap'[BaseOf(pkgs, pkgs[j][1], s_debugsource)].debugsource_package
                          = pkgs[j][2]
          /\ Len(heap') = Len(heap)
          /\ \A ref \in 1..Len(heap) :
                /\ ~IsBaseOf(pkgs, ref, s_debuginfo) =>
                      heap'[ref].debuginfo_package = heap[ref].debuginfo_package
                /\ ~IsBaseOf(pkgs, ref, s_debugsource) =>
                      heap'[ref].debugsource_package = heap[ref].debugsource_package
                /\ [heap'[ref] EXCEPT
                      !.debuginfo_package = heap[ref].debuginfo_package,
                      !.debugsource_package = heap[ref].debugsource_package] = heap[ref]
      ]_vars

\* foo, foo-debuginfo and foo-debugsource of one repository were linked
C18_Witness ==
    /\ last.op = "link_debug_packages"
    /\ raised = "none"
    /\ \E a \in 1..Len(heap), b \in 1..Len(heap), c \in 1..Len(heap) :
          /\ heap[a].name = s_foo
          /\ heap[b].name = s_foo_debuginfo
          /\ heap[c].name = s_foo_debugsource
          /\ heap[a].debuginfo_package = b
          /\ heap[a].debugsource_package = c
          /\ heap[b].debuginfo_package = NoRef
          /\ heap[c].debugsource_package = NoRef

\* d holds a name ending in -debuginfo or -debugsource whose base name is
\* no key of d
DebugWithoutBase(d) ==
    \E j \in 1..Len(d) :
        \/ endswith(d[j][1], s_debuginfo) /\ ~dict_has(d, removesuffix(d[j][1], s_debuginfo))
        \/ endswith(d[j][1], s_debugsource) /\ ~dict_has(d, removesuffix(d[j][1], s_debugsource))

\* C19: when the map given to link_debug_packages holds a debug package
\* whose base name is no key of it, the call ends with KeyError and
\* load_repo ends with it: once it has raised, load_repo takes no further
\* step and there is no RepoInfo.
C19_DebugWithoutBaseIsFatal ==
    /\ [][ (pc = "link" /\ DebugWithoutBase(pkgs) /\ pc' # "link") =>
              (pc' = "raised" /\ raised' = "KeyError") ]_vars
    /\ [][ pc = "raised" => (pc' = "raised" /\ raised' = raised) ]_vars
    /\ [](pc = "raised" => result = NoResult)

\* a repository with foo-debuginfo or foo-debugsource and without foo was
\* read, and the linking pass ended load_repo
C19_Witness ==
    /\ pc = "raised"
    /\ raised = "KeyError"
    /\ last.op = "link_debug_packages"
    /\ result = NoResult
    /\ \E j \in 1..Len(pkgs) : heap[pkgs[j][2]].name \in LoadDebugNames
    /\ ~dict_has(pkgs, s_foo)

(***************************************************************************)
(* filter_newest_repos of repo_loader.py, as load_repo calls it at line    *)
(* 102 on the list of repositories the build service reports.              *)
(***************************************************************************)
\* int(s) for a string of decimal digits
digit_value(c) == CHOOSE n \in 0..9 : Digits[n + 1] = c

RECURSIVE int_from(_, _)
int_from(acc, s) ==
    IF s = <<>> THEN acc
    ELSE int_from(acc * 10 + digit_value(Head(s)), Tail(s))

\* [int(part) for part in ver.split(".")]
int_parts(parts) == [j \in 1..Len(parts) |-> int_from(0, parts[j])]

\* ver_nos(repo_name)
ver_nos(repo_name) == int_parts(split(split(repo_name, "_")[1], "."))

\* the first position at which zip(ver_l, ver_r) holds two different
\* numbers, 0 when it holds none
first_difference(ver_l, ver_r) ==
    IF \E j \in 1..Len(ver_l) : j <= Len(ver_r) /\ ver_l[j] # ver_r[j]
    THEN CHOOSE j \in 1..Len(ver_l) :
             /\ j <= Len(ver_r)
             /\ ver_l[j] # ver_r[j]
             /\ \A m \in 1..(j - 1) : ver_l[m] = ver_r[m]
    ELSE 0

\* the loop of cmp_repo_version, at the first difference at position j
newer_at(left, right, ver_l, ver_r, j) ==
    IF j = 0 THEN left
    ELSE IF ver_l[j] > ver_r[j] THEN left
    ELSE right

\* cmp_repo_version(left, right)
cmp_repo_version(left, right) ==
    newer_at(left, right, ver_nos(left), ver_nos(right),
             first_difference(ver_nos(left), ver_nos(right)))

\* reduce(cmp_repo_version, repos), acc being the value so far
RECURSIVE reduce_cmp(_, _)
reduce_cmp(acc, rest) ==
    IF rest = <<>> THEN acc
    ELSE reduce_cmp(cmp_repo_version(acc, Head(rest)), Tail(rest))

\* [repo for repo in repos if repo.startswith(newest_version)]
repos_with_prefix(repo_list, newest_version) ==
    SelectSeq(repo_list, LAMBDA repo : startswith(repo, newest_version))

\* filter_newest_repos(repos), for a list that is not empty
filter_newest_repos(repo_list) ==
    repos_with_prefix(
        repo_list,
        split(reduce_cmp(Head(repo_list), Tail(repo_list)), "_")[1] \o <<"_">>)

MaxVersionLen == 2

MaxListed == 3

s_i486 == <<"i","4","8","6">>

\* the numbers a version is made of
VersionParts == {<<"4">>, <<"5">>, <<"1","0">>}

ListedVersions ==
    {join(<<".">>, parts) :
        parts \in UNION {[1..n -> VersionParts] : n \in 1..MaxVersionLen}}

ListedRepos ==
    {ver \o <<"_">> \o arch : ver \in ListedVersions, arch \in {s_i486, s_aarch64}}

\* the list of the docstring of filter_newest_repos
ExampleListing ==
    << <<"4",".","5",".","0",".","2","4","_">> \o s_i486,
       repo_aarch64,
       <<"4",".","4",".","0",".","7","2","_">> \o s_i486 >>

Listings ==
    UNION {[1..n -> ListedRepos] : n \in 1..MaxListed} \cup {ExampleListing}

\* load_repo without the repos argument, line 102:
\* repos = filter_newest_repos(list_obs_project_repos(...))
ListRepos ==
    \E listing \in Listings :
        /\ pc = "start"
        /\ last.op = "init"
        /\ repos' = filter_newest_repos(listing)
        /\ last' = Call("filter_newest_repos", NoRef, NoRef,
                        [name |-> <<>>, repos |-> listing], <<>>)
        /\ UNCHANGED <<heap, raised, merges, pc, repo_index, nodes_read, pkgs,
                       all_pkgs, all_pkg_list, queue, result>>

NextNewest == ListRepos

SpecNewest == Init /\ [][NextNewest]_vars

\* the tuple a is less than the tuple b, compared left to right
TupleLess(a, b) ==
    \/ \E j \in 1..Len(a) :
          /\ j <= Len(b)
          /\ a[j] < b[j]
          /\ \A m \in 1..(j - 1) : a[m] = b[m]
    \/ /\ Len(a) < Len(b)
       /\ \A m \in 1..Len(a) : a[m] = b[m]

\* the version of the identifier is the greatest of the listing
IsNewestOf(repo, listing) ==
    \A j \in 1..Len(listing) : ~TupleLess(ver_nos(repo), ver_nos(listing[j]))

\* C20: filter_newest_repos returns exactly the identifiers of its list
\* whose version is the greatest of the list as a tuple of integers, in
\* their order in the list; on the list of the docstring it returns the two
\* 4.5.0.24 identifiers.
C20_NewestReposKept ==
    last.op = "filter_newest_repos" =>
        /\ repos = SelectSeq(last.node.repos,
                             LAMBDA repo : IsNewestOf(repo, last.node.repos))
        /\ last.node.repos = ExampleListing
               => repos = SubSeq(ExampleListing, 1, 2)

(***************************************************************************)
(* Claims on the combined records of load_repo, checked under SpecLoad.    *)
(***************************************************************************)
\* C21: updated of a record is the most recent build time seen for it: when
\* a record is merged into another (a second element of the same name, or
\* the record of another repository in the combine loop), the combined
\* record's updated is the later of the two build times, so that it is the
\* maximum of the build times of all the records merged into it.
C21_UpdatedIsLatestBuild ==
    [][ MergeStep =>
          heap'[last'.target].updated
            = SetMax({heap[last'.target].updated, heap'[last'.source].updated})
      ]_vars

(***************************************************************************)
(* Package.get_download_url, on records built by from_node and changed by  *)
(* merge_arch.  The loop of line 412 iterates a set, in an order the code  *)
(* does not fix; repo is the identifier the loop is left with, NoRepo when *)
(* the loop ran to its else branch.  The identifiers are those load_repo   *)
(* accepts at line 121: they hold at least one underscore.                 *)
(***************************************************************************)
\* CONFIG.repo_url_prefix
repo_url_prefix ==
    <<"h","t","t","p","s",":","/","/","r","e","p","o",".","s","a","i","l",
      "f","i","s","h","o","s",".","o","r","g","/","o","b","s","/","s","a",
      "i","l","f","i","s","h","o","s",":","/","c","h","u","m","/">>

NoRepo == <<>>

\* the identifiers the loop of lines 412-415 can break at; for noarch, the
\* identifiers next(self.repos.__iter__()) can return
url_repos(self, arch) ==
    IF arch = s_noarch THEN self.repos
    ELSE {repo \in self.repos : repo_suffix(repo) = arch}

\* get_download_url(self, arch) from line 416 on, the loop being left with
\* repo: None from the else branch, else line 420, where
\* self.download_url[arch] raises KeyError when arch is no key
get_download_url(self, arch, repo) ==
    IF repo = NoRepo THEN [returns |-> PyNone, exc |-> "none"]
    ELSE IF arch \notin DOMAIN self.download_url
    THEN [returns |-> PyNone, exc |-> "KeyError"]
    ELSE [returns |-> PyStr(repo_url_prefix \o repo \o <<"/">> \o self.download_url[arch]),
          exc |-> "none"]

s_testing == <<"t","e","s","t","i","n","g">>

\* an identifier with two underscores, for the aarch64 builds of a testing
\* project
repo_testing_aarch64 ==
    <<"4",".","5",".","0",".","2","4","_">> \o s_testing \o <<"_">> \o s_aarch64

UrlRepos == {repo_aarch64, repo_armv7hl, repo_old_aarch64, repo_testing_aarch64}

\* the text after the last underscore of an identifier
last_piece(repo_name) == split(repo_name, "_")[Len(split(repo_name, "_"))]

UrlNodes ==
    {MkNode(s_foo, arch, 1, PlainDescription, YamlReturns(PyStr(<<"a", " ", "b">>))) :
        arch \in Archs}

\* p = Package.from_node(node, repo_arch), for a node of a repository that
\* holds the packages of the architecture it is named after and noarch ones
UrlFromNode ==
    \E node \in UrlNodes, repo_arch \in UrlRepos :
        /\ Len(heap) < MaxPkgs
        /\ node.arch \in {last_piece(repo_arch), s_noarch}
        /\ FromNodeReturns(from_node(node, repo_arch), node, repo_arch)
        /\ UNCHANGED <<merges, loadvars>>

\* what a get_download_url call that ended as r leaves behind
GetDownloadUrlReturns(r, ref, arch, repo) ==
    /\ raised' = r.exc
    /\ last' = Call("get_download_url", ref, NoRef,
                    [arch |-> arch, returns |-> r.returns], repo)

\* heap[ref].get_download_url(arch)
GetDownloadUrl ==
    \E ref \in 1..Len(heap), arch \in Archs :
        /\ \E repo \in IF url_repos(heap[ref], arch) = {} THEN {NoRepo}
                       ELSE url_repos(heap[ref], arch) :
              GetDownloadUrlReturns(get_download_url(heap[ref], arch, repo),
                                    ref, arch, repo)
        /\ UNCHANGED <<heap, merges, loadvars>>

NextUrl == UrlFromNode \/ MergeArch \/ GetDownloadUrl

SpecUrl == Init /\ [][NextUrl]_vars

(***************************************************************************)
(* Claims on get_download_url, checked under SpecUrl.                      *)
(***************************************************************************)
\* get_download_url(arch) was called on heap[last.target], arch not noarch
UrlCalled == last.op = "get_download_url" /\ last.node.arch # s_noarch

\* the identifiers of p.repos whose architecture suffix, the text after the
\* last underscore, is arch
ReposOfArch(p, arch) == {repo \in p.repos : last_piece(repo) = arch}

\* C22: get_download_url(package, arch) for an arch other than noarch returns
\* None, without raising and without changing the package, when no identifier
\* of package.repos has the architecture suffix arch; when one has, it
\* returns the configured prefix followed by that identifier, "/" and
\* package.download_url[arch], for an arch that download_url has an entry
\* for.
C22_NoUrlWithoutRepo ==
    /\ [](UrlCalled =>
            IF ReposOfArch(heap[last.target], last.node.arch) = {}
            THEN raised = "none" /\ last.node.returns = PyNone
            ELSE last.node.arch \in DOMAIN heap[last.target].download_url =>
                    /\ raised = "none"
                    /\ \E repo \in ReposOfArch(heap[last.target], last.node.arch) :
                          last.node.returns
                            = PyStr(repo_url_prefix \o repo \o <<"/">>
                                    \o heap[last.target].download_url[last.node.arch]))
    /\ [][last'.op = "get_download_url" => heap' = heap]_vars

\* C28: get_download_url matches a repository to arch by the text after the
\* last underscore of its identifier, identifiers with more than one
\* underscore included: the identifier the call uses has arch after its last
\* underscore, and the call uses one whenever package.repos holds such an
\* identifier.
C28_MatchesLastPiece ==
    UrlCalled =>
        /\ last.repo_arch # NoRepo => last_piece(last.repo_arch) = last.node.arch
        /\ last.repo_arch = NoRepo =>
              ReposOfArch(heap[last.target], last.node.arch) = {}

(***************************************************************************)
(* Claims on the failures of load_repo, checked under SpecLoad.            *)
(***************************************************************************)
\* read_repo_data is called for a repository without a primary index
NoPrimaryStep == last'.op = "read_repo_data" /\ last'.node = NoRepoInfo

\* C23: when repomd.xml of a repository advertises no location for the
\* primary index, load_repo takes the repository as one without packages
\* and goes on to its RepoInfo: the run does not abort.
C23_MissingPrimaryIsSkipped ==
    [][ NoPrimaryStep =>
          /\ pc' # "raised"
          /\ raised' = "none"
          /\ dict_get(all_pkgs', repo_suffix(last'.repo_arch), <<>>) = <<>>
      ]_vars

\* the request for the remote description of a package failed: it raised a
\* network error, or the server answered with an error status
FetchFailed ==
    /\ last'.op = "requests.get"
    /\ last'.node.answer \in {"ConnectionError", "error status"}

\* C24: a failed fetch of one package's remote description skips only that
\* package's enrichment: its description stays the locally parsed text, the
\* loop goes on with the remaining packages that have a markdown URL, and
\* load_repo is not aborted, so that it still returns its RepoInfo.
C24_FailedFetchSkipsOnePackage ==
    [][ FetchFailed =>
          /\ heap' = heap
          /\ queue' = Tail(queue)
          /\ pc' = "remote"
          /\ raised' = "none"
      ]_vars

\* a step of load_remote_descriptions: the call, or one round of its loop
RemoteStep == last'.op \in {"load_remote_descriptions", "requests.get"}

\* C25: load_remote_descriptions changes only the description field, and
\* only of packages that have a markdown URL: every other field of every
\* package, and the set of packages itself, are as they were.
C25_EnrichmentChangesDescriptionOnly ==
    [][ RemoteStep =>
          /\ Len(heap') = Len(heap)
          /\ all_pkg_list' = all_pkg_list
          /\ \A ref \in 1..Len(heap) :
                /\ [heap'[ref] EXCEPT !.description = heap[ref].description] = heap[ref]
                /\ heap'[ref] # heap[ref] => truthy(heap[ref].markdown_url)
      ]_vars

\* the description of a package with a markdown URL was replaced by the
\* fetched text, in a run whose combined set also holds a package without
\* a markdown URL
C25_Witness ==
    /\ last.op = "requests.get"
    /\ last.node.answer = "ok"
    /\ heap[last.target].description = Markup(<<"t">>)
    /\ truthy(heap[last.target].markdown_url)
    /\ Len(all_pkg_list) >= 2
    /\ \E j \in 1..Len(all_pkg_list) : ~truthy(heap[all_pkg_list[j][2]].markdown_url)

(***************************************************************************)
(* Claims on the order of the passes of load_repo, checked under SpecLoad. *)
(***************************************************************************)
\* the passes that may follow the pass load_repo is in
NextPasses(p) ==
    CASE p = "start"   -> {"read"}
      [] p = "read"    -> {"read", "link", "raised"}
      [] p = "link"    -> {"read", "combine", "raised"}
      [] p = "combine" -> {"combine", "remote", "done", "raised"}
      [] p = "remote"  -> {"remote", "done", "raised"}
      [] OTHER         -> {}

\* the calls a step of the pass makes
PassCalls(p) ==
    CASE p = "start"   -> {"load_repo"}
      [] p = "read"    -> {"from_node", "merge_arch", "read_repo_data"}
      [] p = "link"    -> {"link_debug_packages"}
      [] p = "combine" -> {"insert", "merge_arch", "load_remote_descriptions", "RepoInfo"}
      [] p = "remote"  -> {"requests.get", "RepoInfo"}
      [] OTHER         -> {}

\* every record of the per-repository maps is in the by-name map, by name
AllCombined ==
    \A j \in 1..Len(all_pkgs) :
        \A k \in 1..Len(all_pkgs[j][2]) : dict_has(all_pkg_list, all_pkgs[j][2][k][1])

\* C26: the passes of load_repo happen in order and are not interleaved: the
\* map of a repository is built (records, then changelogs) and its debug
\* packages are linked before the next repository is read; nothing is put
\* into or merged in the by-name map before every repository is built and
\* linked; the remote descriptions are loaded only after every record is
\* combined; and the RepoInfo is built last.
C26_PassesInOrder ==
    /\ [][ /\ pc' \in NextPasses(pc)
           /\ last'.op \in PassCalls(pc)
           /\ pc = "read" => repo_index' = repo_index
           /\ (pc = "link" /\ pc' = "read") =>
                  /\ repo_index' = repo_index + 1
                  /\ repo_index' <= Len(repos)
                  /\ pkgs' = <<>>
           /\ pc' = "combine" => repo_index' = Len(repos) + 1
           /\ pc' = "link" => last'.repo_arch = repos[repo_index]
           /\ last'.op = "link_debug_packages" => last.op = "read_repo_data"
         ]_vars
    /\ [](/\ all_pkg_list # <<>> => repo_index = Len(repos) + 1
          /\ pc \in {"start", "read", "link"} =>
                /\ all_pkg_list = <<>>
                /\ Len(all_pkgs) <= repo_index
          /\ pc \in {"remote", "done"} => AllCombined
          /\ (\E ref \in 1..Len(heap) : heap[ref].description.k = "Markup") =>
                pc \in {"remote", "done", "raised"} /\ AllCombined
          /\ result # NoResult => pc = "done")

\* a run over two repositories is done: a record of the second was merged
\* into the record of the first, which then got its remote description
C26_Witness ==
    /\ pc = "done"
    /\ Len(repos) = 2
    /\ \E j \in 1..Len(result.packages) :
          /\ Cardinality(heap[result.packages[j]].archs) = 2
          /\ heap[result.packages[j]].description = Markup(<<"t">>)

(***************************************************************************)
(* Claims on the combined set of load_repo, checked under SpecLoad.        *)
(***************************************************************************)
\* C27: after the link and merge passes the debug links need no
\* reconciliation: for every package X of the combined set such that
\* X-debuginfo (X-debugsource) is in the combined set too,
\* X.debuginfo_package (X.debugsource_package) is the record of that name in
\* the combined set, whatever the architectures of the two and the order of
\* the repositories.
C27_DebugLinksOfCombinedSet ==
    pc = "done" =>
        \A j \in 1..Len(all_pkg_list), k \in 1..Len(all_pkg_list) :
            /\ all_pkg_list[k][1] = all_pkg_list[j][1] \o s_debuginfo =>
                  heap[all_pkg_list[j][2]].debuginfo_package = all_pkg_list[k][2]
            /\ all_pkg_list[k][1] = all_pkg_list[j][1] \o s_debugsource =>
                  heap[all_pkg_list[j][2]].debugsource_package = all_pkg_list[k][2]

(***************************************************************************)
(* Claims on the keys of the mapping, checked under SpecParse.             *)
(***************************************************************************)
\* yaml_load returned a mapping that omits some of the keys and gives each
\* of the others a value of the shape the extractor expects
KeysOmitted ==
    /\ BlockIsMapping
    /\ \E keys \in SUBSET MappingKeys :
          BlockMapping.v = restrict_mapping(FullMapping, keys)

\* C29: every key of the mapping is optional: a mapping that omits any of
\* Title, Type, Icon, Screenshots, DeveloperName, PackagedBy, Custom,
\* Links/Url and Categories, the present keys being well-shaped, adds
\* nothing to debug_yaml_errors, and each omitted key leaves its field at
\* the default.
C29_EveryKeyOptional ==
    (Extracted /\ KeysOmitted) =>
        /\ heap[1].debug_yaml_errors = <<>>
        /\ ~(yaml_has(BlockMapping, k_Title) \/ yaml_has(BlockMapping, k_PackageName))
              => heap[1].title = PyStr(name_to_title(heap[1].name))
        /\ ~yaml_has(BlockMapping, k_Type) => heap[1].type = PyStr(s_generic)
        /\ ~(yaml_has(BlockMapping, k_PackageIcon) \/ yaml_has(BlockMapping, k_Icon))
              => heap[1].icon = PyNone
        /\ ~yaml_has(BlockMapping, k_Screenshots) => heap[1].screenshots = <<>>
        /\ ~yaml_has(BlockMapping, k_DeveloperName) => heap[1].developer_name = PyNone
        /\ ~yaml_has(BlockMapping, k_PackagedBy) => heap[1].packager_name = PyNone
        /\ ~yaml_has(BlockMapping, k_Custom) =>
              /\ heap[1].repo_url = PyNone
              /\ heap[1].packaging_repo_url = PyNone
              /\ heap[1].markdown_url = PyNone
        /\ ~(yaml_has(BlockMapping, k_Links) \/ yaml_has(BlockMapping, k_Url))
              => heap[1].links = <<>>
        /\ ~yaml_has(BlockMapping, k_Categories)
              => heap[1].categories = {category_member("other")}

(***************************************************************************)
(* Claims on the completeness of load_repo, checked under SpecLoad.  The   *)
(* heap holds one record per <package> element read, so the names found   *)
(* in a repository are the names of the records that have it in repos.     *)
(***************************************************************************)
\* C30: the combined output of load_repo is complete, for every list of
\* repositories, lists with two identifiers of the same architecture suffix
\* included: every name found in the primary index of a processed
\* repository is the name of a record of RepoInfo.packages, and that
\* record's archs and repos cover every repository the name was found in.
C30_CombinedOutputComplete ==
    pc = "done" =>
        \A ref \in 1..Len(heap) :
            \E j \in 1..Len(result.packages) :
                /\ heap[result.packages[j]].name = heap[ref].name
                /\ heap[ref].repos \subseteq heap[result.packages[j]].repos
                /\ heap[ref].archs \subseteq heap[result.packages[j]].archs

=============================================================================
